---- MODULE Spec2Model ----
(***************************************************************************)
(* gowebsock: the frame codec (internal/frame.go), the control and data    *)
(* frame constructors (frames/control_frames.go, internal/data_frames.go)  *)
(* and the per-connection session with its receive state machine           *)
(* (internal/websock.go).  Bytes are naturals 0..255, byte strings are     *)
(* sequences of bytes, and the transport carries encoded frames.           *)
(***************************************************************************)
EXTENDS Integers, Sequences, FiniteSets, TLC

\* ------------------------------------------------------------------------
\* Bounds of the model
\* ------------------------------------------------------------------------

\* number of frames the peer sends on one connection
MaxFrames ==
  3

\* the number of send operations the application calls
MaxSends ==
  1

\* ------------------------------------------------------------------------
\* internal/frame.go: constants
\* ------------------------------------------------------------------------

OpContinuation ==
  0

OpText ==
  1

OpBinary ==
  2

OpClose ==
  8

OpPing ==
  9

OpPong ==
  10

PayloadLen16BitCode ==
  126

PayloadLen64BitCode ==
  127

minimalHeaderSize ==
  2

maskFIN ==
  128

maskRSV1 ==
  64

maskRSV2 ==
  32

maskRSV3 ==
  16

maskOPCODE ==
  15

maskPayloadMasked ==
  maskFIN

payloadLen125OrLess ==
  125

uint16byteSize ==
  2

uint64ByteSize ==
  8

maskKeySize ==
  4

MaxUint16 ==
  65535

NormalClosure ==
  1000

ProtocolError ==
  1002

NoStatusCode1005 ==
  1005

GotInconsistentData ==
  1007

\* the zero value of Frame.MaskingKey
ZeroKey ==
  <<0, 0, 0, 0>>

\* ------------------------------------------------------------------------
\* Byte arithmetic
\* ------------------------------------------------------------------------

RECURSIVE Xor(_, _)
\* a ^ b on naturals
Xor(a, b) ==
  IF a = 0 THEN b
  ELSE IF b = 0 THEN a
  ELSE ((a + b) % 2) + 2 * Xor(a \div 2, b \div 2)

\* b & m # 0 for a one-bit mask m
BitSet(b, m) ==
  (b \div m) % 2 = 1

RECURSIVE BigEndian(_, _)
\* binary.BigEndian.PutUint16 / PutUint64: v in n bytes, most significant first
BigEndian(v, n) ==
  IF n = 0 THEN <<>>
  ELSE Append(BigEndian(v \div 256, n - 1), v % 256)

RECURSIVE FromBigEndian(_)
\* binary.BigEndian.Uint16 / Uint64
FromBigEndian(bs) ==
  IF bs = <<>> THEN 0
  ELSE FromBigEndian(SubSeq(bs, 1, Len(bs) - 1)) * 256 + bs[Len(bs)]

\* s[from:] with a 0-based offset
Drop(s, n) ==
  SubSeq(s, n + 1, Len(s))

\* s[:n]
Take(s, n) ==
  SubSeq(s, 1, n)

\* utf8.Valid of the standard library: well-formed UTF-8 only (no overlong
\* forms, no surrogates, nothing above U+10FFFF)
Utf8Valid(bs) ==
  LET n == Len(bs)
      Cont(i) == i <= n /\ bs[i] >= 128 /\ bs[i] <= 191
      \* the length of the sequence a first byte announces, 0 for a byte
      \* that cannot start one
      Size(b) == IF b < 128 THEN 1
                 ELSE IF b >= 194 /\ b <= 223 THEN 2
                 ELSE IF b >= 224 /\ b <= 239 THEN 3
                 ELSE IF b >= 240 /\ b <= 244 THEN 4
                 ELSE 0
      \* a well-formed sequence starts at i and the next one, if any, starts
      \* right after it
      RuneAt(i) ==
        LET b == bs[i]
        IN  /\ Size(b) > 0
            /\ \A k \in 1..(Size(b) - 1) : Cont(i + k)
            /\ (b = 224 => bs[i + 1] >= 160)
            /\ (b = 237 => bs[i + 1] <= 159)
            /\ (b = 240 => bs[i + 1] >= 144)
            /\ (b = 244 => bs[i + 1] <= 143)
            /\ ~Cont(i + Size(b))
  IN  /\ ~Cont(1)
      /\ \A i \in 1..n : ~Cont(i) => RuneAt(i)

\* ------------------------------------------------------------------------
\* Error values: an error is the byte string of its Error() text, nil is
\* the empty string.
\* ------------------------------------------------------------------------

Nil ==
  <<>>

\* io.ReadFull's error on a failed or exhausted transport ("EOF")
ErrEOF ==
  <<69, 79, 70>>

\* "most significant bit of 64-bit length must be 0"
ErrMsb ==
  <<109, 111, 115, 116, 32, 115, 105, 103, 110, 105, 102, 105, 99, 97, 110, 116, 32, 98, 105, 116, 32, 111, 102, 32, 54, 52, 45, 98, 105, 116, 32, 108, 101, 110, 103, 116, 104, 32, 109, 117, 115, 116, 32, 98, 101, 32, 48>>

\* the transport's write error ("write")
ErrWrite ==
  <<119, 114, 105, 116, 101>>

\* "close frame reason must be valid UTF-8"
ErrCloseReasonUtf8 ==
  <<99, 108, 111, 115, 101, 32, 102, 114, 97, 109, 101, 32, 114, 101, 97, 115, 111, 110, 32, 109, 117, 115, 116, 32, 98, 101, 32, 118, 97, 108, 105, 100, 32, 85, 84, 70, 45, 56>>

\* "not a close frame"
ErrNotClose ==
  <<110, 111, 116, 32, 97, 32, 99, 108, 111, 115, 101, 32, 102, 114, 97, 109, 101>>

\* "invalid close frame: payload too small"
ErrCloseTooSmall ==
  <<105, 110, 118, 97, 108, 105, 100, 32, 99, 108, 111, 115, 101, 32, 102, 114, 97, 109, 101, 58, 32, 112, 97, 121, 108, 111, 97, 100, 32, 116, 111, 111, 32, 115, 109, 97, 108, 108>>

\* "close frame contains invalid UTF-8 in reason"
ErrCloseReasonInvalid ==
  <<99, 108, 111, 115, 101, 32, 102, 114, 97, 109, 101, 32, 99, 111, 110, 116, 97, 105, 110, 115, 32, 105, 110, 118, 97, 108, 105, 100, 32, 85, 84, 70, 45, 56, 32, 105, 110, 32, 114, 101, 97, 115, 111, 110>>

\* "can not create text frame with invalid UTF-8 in application data"
ErrTextFrameUtf8 ==
  <<99, 97, 110, 32, 110, 111, 116, 32, 99, 114, 101, 97, 116, 101, 32, 116, 101, 120, 116, 32, 102, 114, 97, 109, 101, 32, 119, 105, 116, 104, 32, 105, 110, 118, 97, 108, 105, 100, 32, 85, 84, 70, 45, 56, 32, 105, 110, 32, 97, 112, 112, 108, 105, 99, 97, 116, 105, 111, 110, 32, 100, 97, 116, 97>>

\* "maxFrameSize must be greater than zero"
ErrMaxFrameSize ==
  <<109, 97, 120, 70, 114, 97, 109, 101, 83, 105, 122, 101, 32, 109, 117, 115, 116, 32, 98, 101, 32, 103, 114, 101, 97, 116, 101, 114, 32, 116, 104, 97, 110, 32, 122, 101, 114, 111>>

\* "initial opcode must be OpText or OpBinary"
ErrInitialOpcode ==
  <<105, 110, 105, 116, 105, 97, 108, 32, 111, 112, 99, 111, 100, 101, 32, 109, 117, 115, 116, 32, 98, 101, 32, 79, 112, 84, 101, 120, 116, 32, 111, 114, 32, 79, 112, 66, 105, 110, 97, 114, 121>>

\* "ping frame application data must be valid UTF-8"
ErrPingUtf8 ==
  <<112, 105, 110, 103, 32, 102, 114, 97, 109, 101, 32, 97, 112, 112, 108, 105, 99, 97, 116, 105, 111, 110, 32, 100, 97, 116, 97, 32, 109, 117, 115, 116, 32, 98, 101, 32, 118, 97, 108, 105, 100, 32, 85, 84, 70, 45, 56>>

\* "ping frame payload cannot exceed 125 bytes"
ErrPingTooLong ==
  <<112, 105, 110, 103, 32, 102, 114, 97, 109, 101, 32, 112, 97, 121, 108, 111, 97, 100, 32, 99, 97, 110, 110, 111, 116, 32, 101, 120, 99, 101, 101, 100, 32, 49, 50, 53, 32, 98, 121, 116, 101, 115>>

\* "ping frame is nil"
ErrPingFrameNil ==
  <<112, 105, 110, 103, 32, 102, 114, 97, 109, 101, 32, 105, 115, 32, 110, 105, 108>>

\* "error reading frame"
MsgErrorReadingFrame ==
  <<101, 114, 114, 111, 114, 32, 114, 101, 97, 100, 105, 110, 103, 32, 102, 114, 97, 109, 101>>

\* "protocol error: unmasked client frame"
MsgUnmasked ==
  <<112, 114, 111, 116, 111, 99, 111, 108, 32, 101, 114, 114, 111, 114, 58, 32, 117, 110, 109, 97, 115, 107, 101, 100, 32, 99, 108, 105, 101, 110, 116, 32, 102, 114, 97, 109, 101>>

\* "protocol error: control frames must have payload length <= 125 bytes and must not be fragmented"
MsgControlShape ==
  <<112, 114, 111, 116, 111, 99, 111, 108, 32, 101, 114, 114, 111, 114, 58, 32, 99, 111, 110, 116, 114, 111, 108, 32, 102, 114, 97, 109, 101, 115, 32, 109, 117, 115, 116, 32, 104, 97, 118, 101, 32, 112, 97, 121, 108, 111, 97, 100, 32, 108, 101, 110, 103, 116, 104, 32, 60, 61, 32, 49, 50, 53, 32, 98, 121, 116, 101, 115, 32, 97, 110, 100, 32, 109, 117, 115, 116, 32, 110, 111, 116, 32, 98, 101, 32, 102, 114, 97, 103, 109, 101, 110, 116, 101, 100>>

\* "protocol error: RSV bits must be 0"
MsgRsv ==
  <<112, 114, 111, 116, 111, 99, 111, 108, 32, 101, 114, 114, 111, 114, 58, 32, 82, 83, 86, 32, 98, 105, 116, 115, 32, 109, 117, 115, 116, 32, 98, 101, 32, 48>>

\* "protocol error: invalid UTF-8 in close reason"
MsgCloseUtf8 ==
  <<112, 114, 111, 116, 111, 99, 111, 108, 32, 101, 114, 114, 111, 114, 58, 32, 105, 110, 118, 97, 108, 105, 100, 32, 85, 84, 70, 45, 56, 32, 105, 110, 32, 99, 108, 111, 115, 101, 32, 114, 101, 97, 115, 111, 110>>

\* "protocol error: close payload length must be 0 or at least 2"
MsgCloseLen1 ==
  <<112, 114, 111, 116, 111, 99, 111, 108, 32, 101, 114, 114, 111, 114, 58, 32, 99, 108, 111, 115, 101, 32, 112, 97, 121, 108, 111, 97, 100, 32, 108, 101, 110, 103, 116, 104, 32, 109, 117, 115, 116, 32, 98, 101, 32, 48, 32, 111, 114, 32, 97, 116, 32, 108, 101, 97, 115, 116, 32, 50>>

\* "continuation frame without preceding data frame"
MsgContinuationNoStart ==
  <<99, 111, 110, 116, 105, 110, 117, 97, 116, 105, 111, 110, 32, 102, 114, 97, 109, 101, 32, 119, 105, 116, 104, 111, 117, 116, 32, 112, 114, 101, 99, 101, 100, 105, 110, 103, 32, 100, 97, 116, 97, 32, 102, 114, 97, 109, 101>>

\* "new data frame received while in fragmented message"
MsgNewDataInFragment ==
  <<110, 101, 119, 32, 100, 97, 116, 97, 32, 102, 114, 97, 109, 101, 32, 114, 101, 99, 101, 105, 118, 101, 100, 32, 119, 104, 105, 108, 101, 32, 105, 110, 32, 102, 114, 97, 103, 109, 101, 110, 116, 101, 100, 32, 109, 101, 115, 115, 97, 103, 101>>

\* "no initial data frame for continuation"
MsgNoInitialFrame ==
  <<110, 111, 32, 105, 110, 105, 116, 105, 97, 108, 32, 100, 97, 116, 97, 32, 102, 114, 97, 109, 101, 32, 102, 111, 114, 32, 99, 111, 110, 116, 105, 110, 117, 97, 116, 105, 111, 110>>

\* "invalid UTF-8 in text message"
MsgTextUtf8 ==
  <<105, 110, 118, 97, 108, 105, 100, 32, 85, 84, 70, 45, 56, 32, 105, 110, 32, 116, 101, 120, 116, 32, 109, 101, 115, 115, 97, 103, 101>>

\* "error sending pong"
MsgErrorSendingPong ==
  <<101, 114, 114, 111, 114, 32, 115, 101, 110, 100, 105, 110, 103, 32, 112, 111, 110, 103>>

\* "protocol error: opcode "
MsgOpcodePrefix ==
  <<112, 114, 111, 116, 111, 99, 111, 108, 32, 101, 114, 114, 111, 114, 58, 32, 111, 112, 99, 111, 100, 101, 32>>

\* " is reserved or invalid"
MsgOpcodeSuffix ==
  <<32, 105, 115, 32, 114, 101, 115, 101, 114, 118, 101, 100, 32, 111, 114, 32, 105, 110, 118, 97, 108, 105, 100>>

\* "protocol error: invalid close code "
MsgCloseCodePrefix ==
  <<112, 114, 111, 116, 111, 99, 111, 108, 32, 101, 114, 114, 111, 114, 58, 32, 105, 110, 118, 97, 108, 105, 100, 32, 99, 108, 111, 115, 101, 32, 99, 111, 100, 101, 32>>

\* "invalid data frame opcode "
MsgDataOpcodePrefix ==
  <<105, 110, 118, 97, 108, 105, 100, 32, 100, 97, 116, 97, 32, 102, 114, 97, 109, 101, 32, 111, 112, 99, 111, 100, 101, 32>>

\* "protocol error: "
MsgProtocolErrorPrefix ==
  <<112, 114, 111, 116, 111, 99, 111, 108, 32, 101, 114, 114, 111, 114, 58, 32>>

\* "protocol error: invalid UTF-8 in complete text message"
ErrTextUtf8 ==
  <<112, 114, 111, 116, 111, 99, 111, 108, 32, 101, 114, 114, 111, 114, 58, 32, 105, 110, 118, 97, 108, 105, 100, 32, 85, 84, 70, 45, 56, 32, 105, 110, 32, 99, 111, 109, 112, 108, 101, 116, 101, 32, 116, 101, 120, 116, 32, 109, 101, 115, 115, 97, 103, 101>>

\* the ASCII digit of d < 16, lower case
Digit(d) ==
  IF d < 10 THEN 48 + d ELSE 87 + d

RECURSIVE Fmt(_, _)
\* fmt's %d (base 10) and %x (base 16) of a non-negative integer
Fmt(n, base) ==
  IF n < base THEN <<Digit(n)>>
  ELSE Append(Fmt(n \div base, base), Digit(n % base))

\* ------------------------------------------------------------------------
\* internal/frame.go: Frame, masking, encoding, decoding
\* ------------------------------------------------------------------------

\* Frame.MaskPayload on the payload bytes: p[i] ^= key[i%4]
MaskBytes(p, key) ==
  [i \in 1..Len(p) |-> Xor(p[i], key[((i - 1) % 4) + 1])]

\* MaskPayload without the test of Masked
MaskPayload_Always(f) ==
  IF Len(f.PayloadData) = 0 THEN f
  ELSE [f EXCEPT !.PayloadData = MaskBytes(f.PayloadData, f.MaskingKey)]

\* Frame.MaskPayload
MaskPayload(f) ==
  IF ~f.Masked \/ Len(f.PayloadData) = 0 THEN f
  ELSE [f EXCEPT !.PayloadData = MaskBytes(f.PayloadData, f.MaskingKey)]

\* Frame.UnmaskPayload
UnmaskPayload(f) ==
  MaskPayload(f)

\* NewFrame; key is what rand.Read puts into the masking key
NewFrame(fin, opcode, payload, mask, key) ==
  LET frame == [Fin |-> fin, Rsv1 |-> FALSE, Rsv2 |-> FALSE, Rsv3 |-> FALSE,
                OpCode |-> opcode, Masked |-> mask,
                PayloadLength |-> Len(payload),
                MaskingKey |-> ZeroKey, PayloadData |-> payload]
  IN  IF mask THEN MaskPayload([frame EXCEPT !.MaskingKey = key])
      ELSE frame

\* NewServerFrame
NewServerFrame(fin, opcode, payload) ==
  NewFrame(fin, opcode, payload, FALSE, ZeroKey)

\* NewClientFrame
NewClientFrame(fin, opcode, payload, key) ==
  NewFrame(fin, opcode, payload, TRUE, key)

\* IsControl that takes a Close frame for a data frame
IsControl_NotClose(f) ==
  f.OpCode > 8

\* Frame.IsControl
IsControl(f) ==
  f.OpCode >= 8

\* MarshalBinary with the inline length kept for lengths below 125 only
MarshalBinary_Inline124(f) ==
  LET b0 == (f.OpCode % (maskOPCODE + 1))
            + (IF f.Fin THEN maskFIN ELSE 0)
            + (IF f.Rsv1 THEN maskRSV1 ELSE 0)
            + (IF f.Rsv2 THEN maskRSV2 ELSE 0)
            + (IF f.Rsv3 THEN maskRSV3 ELSE 0)
      m == IF f.Masked THEN maskPayloadMasked ELSE 0
      lenField ==
        IF f.PayloadLength < payloadLen125OrLess
        THEN <<m + f.PayloadLength>>
        ELSE IF f.PayloadLength <= MaxUint16
        THEN <<m + PayloadLen16BitCode>> \o BigEndian(f.PayloadLength, uint16byteSize)
        ELSE <<m + PayloadLen64BitCode>> \o BigEndian(f.PayloadLength, uint64ByteSize)
      keyField == IF f.Masked THEN f.MaskingKey ELSE <<>>
  IN  <<b0>> \o lenField \o keyField \o f.PayloadData

\* Frame.MarshalBinary
MarshalBinary(f) ==
  LET b0 == (f.OpCode % (maskOPCODE + 1))
            + (IF f.Fin THEN maskFIN ELSE 0)
            + (IF f.Rsv1 THEN maskRSV1 ELSE 0)
            + (IF f.Rsv2 THEN maskRSV2 ELSE 0)
            + (IF f.Rsv3 THEN maskRSV3 ELSE 0)
      m == IF f.Masked THEN maskPayloadMasked ELSE 0
      lenField ==
        IF f.PayloadLength <= payloadLen125OrLess
        THEN <<m + f.PayloadLength>>
        ELSE IF f.PayloadLength <= MaxUint16
        THEN <<m + PayloadLen16BitCode>> \o BigEndian(f.PayloadLength, uint16byteSize)
        ELSE <<m + PayloadLen64BitCode>> \o BigEndian(f.PayloadLength, uint64ByteSize)
      keyField == IF f.Masked THEN f.MaskingKey ELSE <<>>
  IN  <<b0>> \o lenField \o keyField \o f.PayloadData

\* the zero Frame
NoFrame ==
  [Fin |-> FALSE, Rsv1 |-> FALSE, Rsv2 |-> FALSE, Rsv3 |-> FALSE,
   OpCode |-> 0, Masked |-> FALSE, PayloadLength |-> 0,
   MaskingKey |-> ZeroKey, PayloadData |-> <<>>]

\* a nil *Frame
NilFrame ==
  [nil |-> TRUE]

\* make([]byte, frame.PayloadLength) on a 64-bit length field: the length is
\* above what the runtime allocates (2^48 bytes) and make panics
MakeOutOfRange(len8) ==
  \/ len8[1] # 0
  \/ len8[2] > 1
  \/ len8[2] = 1 /\ \E k \in 3..8 : len8[k] # 0

\* a 64-bit length field of 2^31 or more: more bytes than a stream holds
BeyondStream(len8) ==
  \/ \E k \in 1..4 : len8[k] # 0
  \/ len8[5] >= 128

\* DecodeFrame on the bytes s the reader delivers before it fails: the frame
\* and the unread rest with a nil error, ErrEOF when io.ReadFull runs out of
\* bytes, ErrMsb when a 64-bit length has its top bit set; panic: make
\* panicked and DecodeFrame did not return
DecodeFrame(s) ==
  LET Short == [err |-> ErrEOF, frame |-> NoFrame, rest |-> <<>>, panic |-> FALSE]
  IN
  IF Len(s) < minimalHeaderSize THEN Short
  ELSE
    LET h0 == s[1]
        h1 == s[2]
        masked == BitSet(h1, maskPayloadMasked)
        ind == h1 % 128
        extLen == IF ind <= payloadLen125OrLess THEN 0
                  ELSE IF ind = PayloadLen16BitCode THEN uint16byteSize
                  ELSE uint64ByteSize
        keyLen == IF masked THEN maskKeySize ELSE 0
    IN
    IF Len(s) < minimalHeaderSize + extLen THEN Short
    ELSE
      LET plen == IF extLen = 0 THEN ind
                  ELSE FromBigEndian(SubSeq(s, 3, 2 + extLen))
          keyAt == minimalHeaderSize + extLen
          dataAt == keyAt + keyLen
      IN
      IF extLen = uint64ByteSize /\ s[3] >= 128
      THEN [err |-> ErrMsb, frame |-> NoFrame, rest |-> Drop(s, keyAt), panic |-> FALSE]
      ELSE IF Len(s) < dataAt THEN Short
      ELSE IF extLen = uint64ByteSize /\ MakeOutOfRange(SubSeq(s, 3, 10))
      THEN [err |-> Nil, frame |-> NoFrame, rest |-> Drop(s, dataAt), panic |-> TRUE]
      ELSE IF extLen = uint64ByteSize /\ BeyondStream(SubSeq(s, 3, 10)) THEN Short
      ELSE IF Len(s) < dataAt + plen THEN Short
      ELSE
        LET frame == [Fin |-> BitSet(h0, maskFIN),
                      Rsv1 |-> BitSet(h0, maskRSV1),
                      Rsv2 |-> BitSet(h0, maskRSV2),
                      Rsv3 |-> BitSet(h0, maskRSV3),
                      OpCode |-> h0 % (maskOPCODE + 1),
                      Masked |-> masked,
                      PayloadLength |-> plen,
                      MaskingKey |-> IF masked THEN SubSeq(s, keyAt + 1, keyAt + 4)
                                     ELSE ZeroKey,
                      PayloadData |-> SubSeq(s, dataAt + 1, dataAt + plen)]
        IN  [err |-> Nil,
             frame |-> IF plen > 0 /\ masked THEN UnmaskPayload(frame) ELSE frame,
             rest |-> Drop(s, dataAt + plen), panic |-> FALSE]

\* ------------------------------------------------------------------------
\* frames/control_frames.go
\* ------------------------------------------------------------------------

\* NewCloseFrame; key is the masking key drawn when the frame is a client's
NewCloseFrame(code, reason, isServer, key) ==
  IF ~Utf8Valid(reason)
  THEN [frame |-> NoFrame, err |-> ErrCloseReasonUtf8]
  ELSE LET payload == BigEndian(code % 65536, 2) \o reason
       IN  [frame |-> IF isServer THEN NewServerFrame(TRUE, OpClose, payload)
                      ELSE NewClientFrame(TRUE, OpClose, payload, key),
            err |-> Nil]

\* Frame.ReadCloseFrame
ReadCloseFrame(f) ==
  IF f.OpCode # OpClose
  THEN [code |-> 0, reason |-> <<>>, err |-> ErrNotClose]
  ELSE IF Len(f.PayloadData) = 0
  THEN [code |-> NoStatusCode1005, reason |-> <<>>, err |-> Nil]
  ELSE IF Len(f.PayloadData) < 2
  THEN [code |-> 0, reason |-> <<>>, err |-> ErrCloseTooSmall]
  ELSE LET code == FromBigEndian(Take(f.PayloadData, 2))
           reasonBytes == Drop(f.PayloadData, 2)
       IN  IF Len(f.PayloadData) > 2 /\ ~Utf8Valid(reasonBytes)
           THEN [code |-> code, reason |-> <<>>, err |-> ErrCloseReasonInvalid]
           ELSE [code |-> code, reason |-> reasonBytes, err |-> Nil]

\* NewPingFrame; key is the masking key drawn when the frame is a client's
NewPingFrame(applicationData, isClient, key) ==
  IF ~Utf8Valid(applicationData)
  THEN [frame |-> NoFrame, err |-> ErrPingUtf8]
  ELSE IF Len(applicationData) > payloadLen125OrLess
  THEN [frame |-> NoFrame, err |-> ErrPingTooLong]
  ELSE [frame |-> IF isClient THEN NewClientFrame(TRUE, OpPing, applicationData, key)
                  ELSE NewServerFrame(TRUE, OpPing, applicationData),
        err |-> Nil]

\* ------------------------------------------------------------------------
\* Go's int: two's complement, 32 bits wide on 32-bit builds (64 on the
\* others); sums wrap around and the quotient truncates toward zero
\* ------------------------------------------------------------------------

\* math.MaxInt of a 32-bit build
MaxInt ==
  2147483647

\* math.MinInt
MinInt ==
  (-MaxInt) - 1

\* a + b on int
AddInt(a, b) ==
  IF b > 0 /\ a > MaxInt - b THEN MinInt + ((a - (MaxInt - b)) - 1)
  ELSE IF b < 0 /\ a < MinInt - b THEN MaxInt - (((MinInt - b) - a) - 1)
  ELSE a + b

\* a / b on int, for b > 0
QuoInt(a, b) ==
  IF a >= 0 THEN a \div b
  ELSE LET m == -(a + 1)
       IN  -((m \div b) + (IF (m % b) + 1 = b THEN 1 ELSE 0))

\* ------------------------------------------------------------------------
\* internal/data_frames.go
\* ------------------------------------------------------------------------

\* TextFrame without the UTF-8 test
TextFrame_AnyBytes(message, isServer, key) ==
  [frame |-> IF isServer THEN NewServerFrame(TRUE, OpText, message)
             ELSE NewClientFrame(TRUE, OpText, message, key),
   err |-> Nil]

\* TextFrame; key is the masking key drawn when the frame is a client's
TextFrame(message, isServer, key) ==
  IF ~Utf8Valid(message)
  THEN [frame |-> NoFrame, err |-> ErrTextFrameUtf8]
  ELSE [frame |-> IF isServer THEN NewServerFrame(TRUE, OpText, message)
                  ELSE NewClientFrame(TRUE, OpText, message, key),
        err |-> Nil]

\* BinaryFrame
BinaryFrame(data, isServer, key) ==
  [frame |-> IF isServer THEN NewServerFrame(TRUE, OpBinary, data)
             ELSE NewClientFrame(TRUE, OpBinary, data, key),
   err |-> Nil]



\* FragmentedFrames without the test of the initial opcode
FragmentedFrames_AnyOpcode(data, maxFrameSize, opcode, isServer, keys) ==
  LET Result(frames, err, panic) == [frames |-> frames, err |-> err, panic |-> panic]
      totalLength == Len(data)
  IN  IF maxFrameSize <= 0 THEN Result(<<>>, ErrMaxFrameSize, FALSE)
      ELSE IF totalLength = 0
      THEN Result(<<NewClientFrame(TRUE, opcode, <<>>, keys[1])>>, Nil, FALSE)
      ELSE LET numFrames == QuoInt(AddInt(AddInt(totalLength, maxFrameSize), -1), maxFrameSize)
               Chunk(i) ==
                 LET start == (i - 1) * maxFrameSize
                     e == AddInt(start, maxFrameSize)
                     end == IF e > totalLength THEN totalLength ELSE e
                 IN  SubSeq(data, start + 1, end)
           IN  IF numFrames < 0 THEN Result(<<>>, Nil, TRUE)
               ELSE Result([i \in 1..numFrames |->
                              NewClientFrame(i = numFrames,
                                             IF i > 1 THEN OpContinuation ELSE opcode,
                                             Chunk(i), keys[i])],
                           Nil, FALSE)

\* FragmentedFrames; keys[i] is the masking key rand.Read draws for the i-th
\* frame.  panic: make([]*Frame, numFrames) with a negative numFrames.
\* With isServer the frames are built by NewClientFrame, without it by
\* NewServerFrame.
FragmentedFrames(data, maxFrameSize, opcode, isServer, keys) ==
  LET Result(frames, err, panic) == [frames |-> frames, err |-> err, panic |-> panic]
      Build(fin, op, chunk, i) ==
        IF isServer THEN NewClientFrame(fin, op, chunk, keys[i])
        ELSE NewServerFrame(fin, op, chunk)
      totalLength == Len(data)
  IN  IF maxFrameSize <= 0 THEN Result(<<>>, ErrMaxFrameSize, FALSE)
      ELSE IF opcode # OpText /\ opcode # OpBinary THEN Result(<<>>, ErrInitialOpcode, FALSE)
      ELSE IF totalLength = 0 THEN Result(<<Build(TRUE, opcode, <<>>, 1)>>, Nil, FALSE)
      ELSE LET numFrames == QuoInt(AddInt(AddInt(totalLength, maxFrameSize), -1), maxFrameSize)
               Chunk(i) ==
                 LET start == (i - 1) * maxFrameSize
                     e == AddInt(start, maxFrameSize)
                     end == IF e > totalLength THEN totalLength ELSE e
                 IN  SubSeq(data, start + 1, end)
           IN  IF numFrames < 0 THEN Result(<<>>, Nil, TRUE)
               ELSE Result([i \in 1..numFrames |->
                              Build(i = numFrames,
                                    IF i > 1 THEN OpContinuation ELSE opcode,
                                    Chunk(i), i)],
                           Nil, FALSE)

\* ------------------------------------------------------------------------
\* State
\* ------------------------------------------------------------------------

VARIABLES
  wire,      \* bytes the peer has sent and ReadFrame has not consumed
  inflight,  \* history: the frames the peer encoded into wire
  nsent,     \* history: number of frames the peer has sent
  eof,       \* the transport's read side has failed or reached end of stream
  ws,        \* the WebSocket: connOpen (ws.Conn not yet closed), werr (the
             \* buffered writer holds a write error), status (ws.status),
             \* out (history: the encoded frames flushed to the peer, in
             \* order, since the current operation was called) and refused
             \* (history: the transport has refused a write)
  pc,        \* "idle", "reading" (inside ReadMessage's loop), "returned",
             \* "panicked" (ReadMessage ended in a panic)
  loc,       \* ReadMessage's locals payload, firstOpCode, inFragmentedMessage
  ret,       \* what the last ReadMessage returned: messageType, data, err
  rx,        \* history: the peer frames the current ReadMessage has decoded
  call,      \* history: the last send operation the application called: its
             \* name, arguments, returned error, whether it panicked, and the
             \* WebSocket before it
  codec,     \* a Frame in a caller's hands: f (the Frame), orig (f as it
             \* was first), masks (how often MaskPayload ran on it), sent
             \* (f when MarshalBinary ran), bytes (what MarshalBinary
             \* returned), got (what DecodeFrame made of bytes)
  bw         \* ws.buff's writer under goroutines that call WriteFrames at
             \* the same time: buf and n (its buffer and fill count), sent
             \* (the bytes written to ws.Conn), g (each goroutine's frames,
             \* loop index i, the fill count it read, and its position st),
             \* order (history: the goroutines in the order of their calls)
             \* and raced (history: a call began while another was running)

vars ==
  <<wire, inflight, nsent, eof, ws, pc, loc, ret, rx, call, codec, bw>>

\* ------------------------------------------------------------------------
\* internal/websock.go: writing
\* ------------------------------------------------------------------------

\* ws.Conn.Close()
ConnClose(w) ==
  [w EXCEPT !.connOpen = FALSE]

\* WriteFrames putting its frames in front of those written before
WriteFrames_InFront(w, frames, fail) ==
  IF w.connOpen /\ ~w.werr /\ ~fail
  THEN [w |-> [w EXCEPT !.out = [i \in 1..Len(frames) |-> MarshalBinary(frames[i])] \o @],
        err |-> Nil]
  ELSE [w |-> [w EXCEPT !.werr = TRUE,
                         !.refused = @ \/ (fail /\ w.connOpen /\ ~w.werr)],
        err |-> ErrWrite]

\* WebSocket.WriteFrames: every frame is encoded and written to the buffered
\* writer, then flushed.  fail: the transport refuses the write.  A write on
\* a closed connection fails, the buffered writer keeps its first error, and
\* a failed write delivers nothing.
WriteFrames(w, frames, fail) ==
  IF w.connOpen /\ ~w.werr /\ ~fail
  THEN [w |-> [w EXCEPT !.out = @ \o [i \in 1..Len(frames) |-> MarshalBinary(frames[i])]],
        err |-> Nil]
  ELSE [w |-> [w EXCEPT !.werr = TRUE,
                         !.refused = @ \/ (fail /\ w.connOpen /\ ~w.werr)],
        err |-> ErrWrite]

\* WebSocket.WriteCloseMessage
WriteCloseMessage(w, code, reason, fail) ==
  LET c == NewCloseFrame(code, reason, TRUE, ZeroKey)
  IN  IF c.err # Nil THEN [w |-> w, err |-> c.err]
      ELSE WriteFrames(w, <<c.frame>>, fail)

\* WritePongMessage answering with an empty Pong
WritePongMessage_Empty(w, pingFrame, fail) ==
  WriteFrames(w, <<NewServerFrame(TRUE, OpPong, <<>>)>>, fail)

\* WebSocket.WritePongMessage
WritePongMessage(w, pingFrame, fail) ==
  IF pingFrame = NilFrame THEN [w |-> w, err |-> ErrPingFrameNil]
  ELSE WriteFrames(w, <<NewServerFrame(TRUE, OpPong, pingFrame.PayloadData)>>, fail)

\* WebSocket.WriteTextMessage
WriteTextMessage(w, message, fail) ==
  LET t == TextFrame(message, TRUE, ZeroKey)
  IN  IF t.err # Nil THEN [w |-> w, err |-> t.err]
      ELSE WriteFrames(w, <<t.frame>>, fail)

\* WebSocket.WriteBinaryMessage
WriteBinaryMessage(w, data, fail) ==
  LET b == BinaryFrame(data, TRUE, ZeroKey)
  IN  IF b.err # Nil THEN [w |-> w, err |-> b.err]
      ELSE WriteFrames(w, <<b.frame>>, fail)

\* WebSocket.WriteFragmentedMessage; panic: FragmentedFrames panicked
WriteFragmentedMessage(w, data, maxFrameSize, opcode, keys, fail) ==
  LET r == FragmentedFrames(data, maxFrameSize, opcode, TRUE, keys)
  IN  IF r.panic THEN [w |-> w, err |-> Nil, panic |-> TRUE]
      ELSE IF r.err # Nil THEN [w |-> w, err |-> r.err, panic |-> FALSE]
      ELSE LET x == WriteFrames(w, r.frames, fail)
           IN  [w |-> x.w, err |-> x.err, panic |-> FALSE]

\* WebSocket.WritePingMessage
WritePingMessage(w, applicationData, fail) ==
  LET p == NewPingFrame(applicationData, FALSE, ZeroKey)
  IN  IF p.err # Nil THEN [w |-> w, err |-> p.err]
      ELSE WriteFrames(w, <<p.frame>>, fail)

\* Close leaving the connection open when the Close frame could not be written
Close_KeepOnError(w, fail) ==
  LET c == WriteCloseMessage(w, w.status, <<>>, fail)
  IN  [w |-> IF c.err # Nil THEN c.w ELSE ConnClose(c.w), err |-> c.err]

\* WebSocket.Close: the Close frame carries ws.status and no reason; the
\* connection is closed whether or not the frame could be written
Close(w, fail) ==
  LET c == WriteCloseMessage(w, w.status, <<>>, fail)
  IN  [w |-> ConnClose(c.w), err |-> c.err]

\* WebSocket.CloseWithCode: ws.status is set first; the connection is closed
\* whether or not the frame could be built and written
CloseWithCode(w, statusCode, reason, fail) ==
  LET c == WriteCloseMessage([w EXCEPT !.status = statusCode], statusCode, reason, fail)
  IN  [w |-> ConnClose(c.w), err |-> c.err]

\* ------------------------------------------------------------------------
\* internal/websock.go: ValidateClientFrame
\* ------------------------------------------------------------------------

\* UnmaskedFrame with the mask test left out
UnmaskedFrame_Never(fr) ==
  FALSE

\* !fr.Masked
UnmaskedFrame(fr) ==
  ~fr.Masked

\* BadControlShape testing the length alone
BadControlShape_LengthOnly(fr) ==
  IsControl(fr) /\ fr.PayloadLength > payloadLen125OrLess

\* a control frame that is too long or fragmented
BadControlShape(fr) ==
  IsControl(fr) /\ (fr.PayloadLength > payloadLen125OrLess \/ ~fr.Fin)

\* BadOpcode refusing the opcodes above Pong alone
BadOpcode_AbovePong(fr) ==
  fr.OpCode > OpPong

\* a reserved opcode
BadOpcode(fr) ==
  fr.OpCode > OpPong \/ (fr.OpCode > OpBinary /\ fr.OpCode < OpClose)

\* RsvSet looking at RSV1 alone
RsvSet_Rsv1Only(fr) ==
  fr.Rsv1

\* an RSV bit is set
RsvSet(fr) ==
  fr.Rsv1 \/ fr.Rsv2 \/ fr.Rsv3

\* InvalidCloseCode refusing also every code above 4999
InvalidCloseCode_UpTo4999(code) ==
  code < 1000 \/ (code >= 1004 /\ code <= 1006) \/ (code >= 1012 /\ code <= 2999)
  \/ code >= 5000

\* InvalidCloseCode without the range 1004..1006
InvalidCloseCode_No1004(code) ==
  code < 1000 \/ (code >= 1012 /\ code <= 2999)

\* the close-code test: TRUE when the status code is refused
InvalidCloseCode(code) ==
  code < 1000 \/ (code >= 1004 /\ code <= 1006) \/ (code >= 1012 /\ code <= 2999)

\* ValidateClientFrame testing the close reason before the close code
ValidateClientFrame_ReasonFirst(w, fr) ==
  LET Reject(st, msg) == [w |-> [w EXCEPT !.status = st], err |-> msg]
  IN
  IF UnmaskedFrame(fr) THEN Reject(ProtocolError, MsgUnmasked)
  ELSE IF BadControlShape(fr) THEN Reject(ProtocolError, MsgControlShape)
  ELSE IF BadOpcode(fr)
  THEN Reject(ProtocolError, MsgOpcodePrefix \o Fmt(fr.OpCode, 16) \o MsgOpcodeSuffix)
  ELSE IF RsvSet(fr) THEN Reject(ProtocolError, MsgRsv)
  ELSE IF fr.OpCode = OpClose /\ fr.PayloadLength >= 2
  THEN LET code == FromBigEndian(Take(fr.PayloadData, 2))
       IN  IF fr.PayloadLength > 2 /\ ~Utf8Valid(Drop(fr.PayloadData, 2))
           THEN Reject(GotInconsistentData, MsgCloseUtf8)
           ELSE IF InvalidCloseCode(code)
           THEN Reject(ProtocolError, MsgCloseCodePrefix \o Fmt(code, 10))
           ELSE [w |-> w, err |-> Nil]
  ELSE IF fr.OpCode = OpClose /\ fr.PayloadLength = 1
  THEN Reject(ProtocolError, MsgCloseLen1)
  ELSE [w |-> w, err |-> Nil]

\* WebSocket.ValidateClientFrame: the error (Nil when the frame is accepted)
\* and the WebSocket, with ws.status set when the frame is rejected
ValidateClientFrame(w, fr) ==
  LET Reject(st, msg) == [w |-> [w EXCEPT !.status = st], err |-> msg]
  IN
  IF UnmaskedFrame(fr) THEN Reject(ProtocolError, MsgUnmasked)
  ELSE IF BadControlShape(fr) THEN Reject(ProtocolError, MsgControlShape)
  ELSE IF BadOpcode(fr)
  THEN Reject(ProtocolError, MsgOpcodePrefix \o Fmt(fr.OpCode, 16) \o MsgOpcodeSuffix)
  ELSE IF RsvSet(fr) THEN Reject(ProtocolError, MsgRsv)
  ELSE IF fr.OpCode = OpClose /\ fr.PayloadLength >= 2
  THEN LET code == FromBigEndian(Take(fr.PayloadData, 2))
       IN  IF InvalidCloseCode(code)
           THEN Reject(ProtocolError, MsgCloseCodePrefix \o Fmt(code, 10))
           ELSE IF fr.PayloadLength > 2 /\ ~Utf8Valid(Drop(fr.PayloadData, 2))
           THEN Reject(GotInconsistentData, MsgCloseUtf8)
           ELSE [w |-> w, err |-> Nil]
  ELSE IF fr.OpCode = OpClose /\ fr.PayloadLength = 1
  THEN Reject(ProtocolError, MsgCloseLen1)
  ELSE [w |-> w, err |-> Nil]

\* ------------------------------------------------------------------------
\* internal/websock.go: ReadMessage
\* ------------------------------------------------------------------------

\* ReadMessage's locals at entry
InitLoc ==
  [payload |-> <<>>, firstOpCode |-> 0, inFragmentedMessage |-> FALSE]

\* a return value of ReadMessage
Ret(messageType, data, err) ==
  [messageType |-> messageType, data |-> data, err |-> err]

\* CloseAndFail closing the connection before it writes the Close frame
CloseAndFail_CloseFirst(w, code, reason, err, fail) ==
  LET c == WriteCloseMessage(ConnClose(w), code, reason, fail)
  IN  [w |-> c.w, done |-> TRUE,
       ret |-> Ret(0, <<>>, IF c.err # Nil THEN c.err ELSE err)]

\* CloseAndFail that lets the loop go on
CloseAndFail_GoOn(w, code, reason, err, fail) ==
  LET c == WriteCloseMessage(w, code, reason, fail)
  IN  [w |-> ConnClose(c.w), done |-> FALSE,
       ret |-> Ret(0, <<>>, IF c.err # Nil THEN c.err ELSE err)]

\* CloseAndFail that writes the Close frame, leaves the connection open and
\* lets the loop go on
CloseAndFail_StayOpen(w, code, reason, err, fail) ==
  LET c == WriteCloseMessage(w, code, reason, fail)
  IN  [w |-> c.w, done |-> FALSE,
       ret |-> Ret(0, <<>>, IF c.err # Nil THEN c.err ELSE err)]

\* the failure exit of ReadMessage: write the Close frame, close the
\* connection, return the close error if the write failed and err otherwise
CloseAndFail(w, code, reason, err, fail) ==
  LET c == WriteCloseMessage(w, code, reason, fail)
  IN  [w |-> ConnClose(c.w), done |-> TRUE,
       ret |-> Ret(0, <<>>, IF c.err # Nil THEN c.err ELSE err)]

\* HandleClose echoing the status code without the reason
HandleClose_NoReason(w, frame, fail) ==
  LET rc == ReadCloseFrame(frame)
      code == IF rc.code = 0 THEN NormalClosure ELSE rc.code
      c == WriteCloseMessage(w, code, <<>>, fail)
  IN  [w |-> ConnClose(c.w), done |-> TRUE,
       ret |-> IF c.err # Nil THEN Ret(0, <<>>, c.err) ELSE Ret(OpClose, <<>>, Nil)]

\* case OpClose: echo the peer's status code and reason, close the
\* connection, return (OpClose, nil, nil), or the close error
HandleClose(w, frame, fail) ==
  LET rc == ReadCloseFrame(frame)
      code == IF rc.code = 0 THEN NormalClosure ELSE rc.code
      c == WriteCloseMessage(w, code, rc.reason, fail)
  IN  [w |-> ConnClose(c.w), done |-> TRUE,
       ret |-> IF c.err # Nil THEN Ret(0, <<>>, c.err) ELSE Ret(OpClose, <<>>, Nil)]

\* case OpPing going on without a Pong
HandlePing_NoPong(w, frame, fail) ==
  [w |-> w, done |-> FALSE, ret |-> Ret(0, <<>>, Nil)]

\* case OpPing: answer with a Pong and go on, or fail when the Pong cannot
\* be written
HandlePing(w, frame, fail) ==
  LET p == WritePongMessage(w, frame, fail)
  IN  IF p.err # Nil
      THEN CloseAndFail([p.w EXCEPT !.status = ProtocolError], ProtocolError,
                        MsgErrorSendingPong, p.err, fail)
      ELSE [w |-> p.w, done |-> FALSE, ret |-> Ret(0, <<>>, Nil)]

\* ContinuationWithoutStart with the test left out
ContinuationWithoutStart_Never(l, frame) ==
  FALSE

\* a Continuation frame while no fragmented message is in progress
ContinuationWithoutStart(l, frame) ==
  frame.OpCode = OpContinuation /\ ~l.inFragmentedMessage

\* NewDataWhileFragmented with the test left out
NewDataWhileFragmented_Never(l, frame) ==
  FALSE

\* a frame that is not a Continuation while a fragmented message is in
\* progress
NewDataWhileFragmented(l, frame) ==
  frame.OpCode # OpContinuation /\ l.inFragmentedMessage

\* Accumulate with a Continuation's payload replacing what was accumulated
Accumulate_Overwrite(l, frame) ==
  [payload |-> frame.PayloadData,
   firstOpCode |-> IF frame.OpCode = OpContinuation THEN l.firstOpCode ELSE frame.OpCode,
   inFragmentedMessage |-> IF frame.OpCode = OpContinuation THEN l.inFragmentedMessage
                           ELSE ~frame.Fin]

\* the locals after a data frame has been taken in: a Continuation is
\* appended to payload, a Text or Binary frame starts the message
Accumulate(l, frame) ==
  IF frame.OpCode = OpContinuation
  THEN [l EXCEPT !.payload = @ \o frame.PayloadData]
  ELSE [payload |-> frame.PayloadData, firstOpCode |-> frame.OpCode,
        inFragmentedMessage |-> ~frame.Fin]

\* Complete returning a Text message whatever its bytes
Complete_AnyContent(w, l, fail) ==
  IF l.firstOpCode = 0
  THEN CloseAndFail([w EXCEPT !.status = ProtocolError], ProtocolError,
                    MsgNoInitialFrame, MsgProtocolErrorPrefix \o MsgNoInitialFrame, fail)
  ELSE [w |-> w, done |-> TRUE, ret |-> Ret(l.firstOpCode, l.payload, Nil)]

\* if frame.Fin: the message is complete; it is returned unless no first
\* opcode was recorded or a Text message is not valid UTF-8
Complete(w, l, fail) ==
  IF l.firstOpCode = 0
  THEN CloseAndFail([w EXCEPT !.status = ProtocolError], ProtocolError,
                    MsgNoInitialFrame, MsgProtocolErrorPrefix \o MsgNoInitialFrame, fail)
  ELSE IF l.firstOpCode = OpText /\ ~Utf8Valid(l.payload)
  THEN CloseAndFail([w EXCEPT !.status = GotInconsistentData], GotInconsistentData,
                    MsgTextUtf8, ErrTextUtf8, fail)
  ELSE [w |-> w, done |-> TRUE, ret |-> Ret(l.firstOpCode, l.payload, Nil)]

\* one iteration of ReadMessage's loop on the result d of ReadFrame: the
\* WebSocket and the locals after it, whether the call returns, and what;
\* fail: the transport refuses this iteration's write
ReadMessageIter(w0, l, d, fail) ==
  LET Exit(r, l1) == [w |-> r.w, loc |-> l1, done |-> r.done, ret |-> r.ret]
      Continue(w1, l1) == [w |-> w1, loc |-> l1, done |-> FALSE, ret |-> Ret(0, <<>>, Nil)]
      Proto(w1) == [w1 EXCEPT !.status = ProtocolError]
  IN
  IF d.err # Nil
  THEN Exit(CloseAndFail(Proto(w0), ProtocolError, MsgErrorReadingFrame, d.err, fail), l)
  ELSE
  LET frame == d.frame
      v == ValidateClientFrame(w0, frame)
      w == v.w
  IN
  IF v.err # Nil
  THEN Exit(CloseAndFail(w, w.status, v.err, v.err, fail), l)
  ELSE IF IsControl(frame) /\ frame.OpCode = OpClose
  THEN Exit(HandleClose(w, frame, fail), l)
  ELSE IF IsControl(frame) /\ frame.OpCode = OpPing
  THEN Exit(HandlePing(w, frame, fail), l)
  ELSE IF IsControl(frame) /\ frame.OpCode = OpPong
  THEN Continue(w, l)
  ELSE IF ContinuationWithoutStart(l, frame)
  THEN Exit(CloseAndFail(Proto(w), ProtocolError, MsgContinuationNoStart,
                         MsgProtocolErrorPrefix \o MsgContinuationNoStart, fail), l)
  ELSE IF NewDataWhileFragmented(l, frame)
  THEN Exit(CloseAndFail(Proto(w), ProtocolError, MsgNewDataInFragment,
                         MsgProtocolErrorPrefix \o MsgNewDataInFragment, fail), l)
  ELSE IF frame.OpCode # OpContinuation /\ frame.OpCode # OpText /\ frame.OpCode # OpBinary
  THEN LET msg == MsgDataOpcodePrefix \o Fmt(frame.OpCode, 10)
       IN  Exit(CloseAndFail(Proto(w), ProtocolError, msg, MsgProtocolErrorPrefix \o msg, fail), l)
  ELSE IF frame.Fin
  THEN Exit(Complete(w, Accumulate(l, frame), fail), Accumulate(l, frame))
  ELSE Continue(w, Accumulate(l, frame))

\* ------------------------------------------------------------------------
\* The peer: the frames a client may put on the wire
\* ------------------------------------------------------------------------

\* a masking key with four distinct non-zero bytes
Key1 ==
  <<55, 250, 33, 61>>

\* "hi"
Hi ==
  <<104, 105>>

\* "AB"
AB ==
  <<65, 66>>

\* "CD"
CD ==
  <<67, 68>>

\* "ping-data"
PingData ==
  <<112, 105, 110, 103, 45, 100, 97, 116, 97>>

\* "bye"
Bye ==
  <<98, 121, 101>>

\* 126 bytes: one more than a control frame may carry
Long126 ==
  [i \in 1..(payloadLen125OrLess + 1) |-> 65]

\* status codes around every boundary of the close-code test
CloseCodes ==
  {0, 999, 1000, 1003, 1004, 1005, 1006, 1007, 1011, 1012, 1015, 2999,
   3000, 4999, 5000, 65535}

\* payloads of Close frames: none, one byte, a code alone, a code with a
\* valid reason, a code with a reason that is not UTF-8
ClosePayloads ==
  {<<>>, <<3>>}
  \cup {BigEndian(c, 2) \o r : c \in CloseCodes, r \in {<<>>, Bye}}
  \cup {BigEndian(c, 2) \o <<255>> : c \in {NormalClosure, NoStatusCode1005, 4999}}

\* description of a peer frame: header bits, opcode, key and plain payload
PeerFrame(fin, rsv, opcode, masked, key, plain) ==
  [fin |-> fin, rsv |-> rsv, opcode |-> opcode, masked |-> masked,
   key |-> key, plain |-> plain]

\* no RSV bit, and each RSV bit alone
NoRsv ==
  <<FALSE, FALSE, FALSE>>

RsvBits ==
  {<<TRUE, FALSE, FALSE>>, <<FALSE, TRUE, FALSE>>, <<FALSE, FALSE, TRUE>>}

\* masked data frames: "hi" under the zero key, "AB" continued by "CD", the
\* two bytes of U+00E9 (C3 A9) whole and split, and empty payloads
PeerDataFrames ==
  {PeerFrame(TRUE, NoRsv, OpText, TRUE, ZeroKey, Hi)}
  \cup {PeerFrame(fin, NoRsv, op, TRUE, Key1, p) :
          fin \in BOOLEAN, op \in {OpText, OpBinary}, p \in {AB, <<195>>}}
  \cup {PeerFrame(fin, NoRsv, OpContinuation, TRUE, Key1, p) :
          fin \in BOOLEAN, p \in {CD, <<169>>}}
  \cup {PeerFrame(TRUE, NoRsv, op, TRUE, Key1, <<>>) :
          op \in {OpText, OpBinary, OpContinuation}}

\* Ping and Pong frames, also fragmented and too long
PeerPingPongFrames ==
  {PeerFrame(fin, NoRsv, op, TRUE, Key1, p) :
     fin \in BOOLEAN, op \in {OpPing, OpPong}, p \in {PingData, Long126}}
  \cup {PeerFrame(TRUE, NoRsv, OpPing, TRUE, Key1, <<>>)}

\* Close frames, also fragmented and too long
PeerCloseFrames ==
  {PeerFrame(TRUE, NoRsv, OpClose, TRUE, Key1, p) : p \in ClosePayloads}
  \cup {PeerFrame(FALSE, NoRsv, OpClose, TRUE, Key1, BigEndian(NormalClosure, 2)),
        PeerFrame(TRUE, NoRsv, OpClose, TRUE, Key1, BigEndian(NormalClosure, 2) \o Long126)}

\* frames with a reserved opcode, with an RSV bit, and without a mask
PeerBadFrames ==
  {PeerFrame(fin, NoRsv, op, TRUE, Key1, <<>>) : fin \in BOOLEAN, op \in {3, 7, 11, 15}}
  \cup {PeerFrame(TRUE, r, op, TRUE, Key1, <<>>) :
          r \in RsvBits, op \in {OpText, OpClose, OpPing}}
  \cup {PeerFrame(fin, r, op, FALSE, ZeroKey, p) :
          fin \in BOOLEAN, r \in {NoRsv, <<TRUE, FALSE, FALSE>>},
          op \in {OpContinuation, OpText, OpBinary, 3, OpClose, OpPing, OpPong, 11},
          p \in {<<>>, BigEndian(NormalClosure, 2)}}

\* the frames the peer chooses from
PeerFrames ==
  PeerDataFrames \cup PeerPingPongFrames \cup PeerCloseFrames \cup PeerBadFrames

\* the Frame a peer builds from a description: NewFrame with the chosen key,
\* and the chosen RSV bits
PeerBuild(pf) ==
  LET f == NewFrame(pf.fin, pf.opcode, pf.plain, pf.masked, pf.key)
  IN  [f EXCEPT !.Rsv1 = pf.rsv[1], !.Rsv2 = pf.rsv[2], !.Rsv3 = pf.rsv[3]]

\* no Frame in the caller's hands
NoCodec ==
  [f |-> NilFrame, orig |-> NilFrame, masks |-> 0, sent |-> NilFrame,
   bytes |-> <<>>, got |-> NilFrame]

\* the goroutines that write on one WebSocket: the application's sender and
\* a second producer (another sender, or the goroutine in ReadMessage)
Writers ==
  {1, 2}

\* the size of ws.buff's write buffer; the calls below never fill it
BufSize ==
  32

\* ws.buff's writer before any call of WriteFrames
NoWriters ==
  [buf |-> [k \in 1..BufSize |-> 0], n |-> 0, sent |-> <<>>,
   g |-> [p \in Writers |-> [st |-> "idle", frames |-> <<>>, i |-> 0, at |-> 0]],
   order |-> <<>>, raced |-> FALSE]

\* no send operation has been called
NoCall ==
  [op |-> "none", args |-> <<>>, err |-> Nil, panic |-> FALSE, count |-> 0,
   pre |-> [out |-> <<>>, connOpen |-> TRUE, werr |-> FALSE, refused |-> FALSE,
            status |-> NormalClosure]]

\* ------------------------------------------------------------------------
\* Specification
\* ------------------------------------------------------------------------

Init ==
  /\ wire = <<>>
  /\ inflight = <<>>
  /\ nsent = 0
  /\ eof = FALSE
  /\ ws = [out |-> <<>>, connOpen |-> TRUE, werr |-> FALSE, refused |-> FALSE,
           status |-> NormalClosure]
  /\ pc = "idle"
  /\ loc = InitLoc
  /\ ret = Ret(0, <<>>, Nil)
  /\ rx = <<>>
  /\ call = NoCall
  /\ codec = NoCodec
  /\ bw = NoWriters

\* what each peer frame is on the wire
PeerWire ==
  [pf \in PeerFrames |-> MarshalBinary(PeerBuild(pf))]

\* the peer sends one frame to the session waiting in ReadMessage
PeerSend ==
  /\ nsent < MaxFrames
  /\ pc = "reading" /\ ws.connOpen /\ ~eof /\ wire = <<>>
  /\ \E pf \in PeerFrames :
       /\ wire' = PeerWire[pf]
       /\ inflight' = <<pf>>
  /\ nsent' = nsent + 1
  /\ UNCHANGED <<eof, ws, pc, loc, ret, rx, call, codec, bw>>

\* the transport's read side ends: the peer hangs up or the read fails
PeerHangup ==
  /\ pc = "reading" /\ ws.connOpen /\ ~eof /\ wire = <<>>
  /\ eof' = TRUE
  /\ UNCHANGED <<wire, inflight, nsent, ws, pc, loc, ret, rx, call, codec, bw>>

\* ReadMessage starting with the locals the last call left
ReadMessageCall_KeepLocals ==
  /\ pc \in {"idle", "returned"}
  /\ pc' = "reading"
  /\ loc' = loc
  /\ rx' = <<>>
  /\ ws' = [ws EXCEPT !.out = <<>>]
  /\ UNCHANGED <<wire, inflight, nsent, eof, ret, call, codec, bw>>

\* the application calls ReadMessage
ReadMessageCall ==
  /\ pc \in {"idle", "returned"}
  /\ pc' = "reading"
  /\ loc' = InitLoc
  /\ rx' = <<>>
  /\ ws' = [ws EXCEPT !.out = <<>>]
  /\ UNCHANGED <<wire, inflight, nsent, eof, ret, call, codec, bw>>

\* one iteration of ReadMessage's loop: ReadFrame blocks until a frame has
\* arrived or the transport fails; a panic in DecodeFrame leaves ReadMessage
\* without a return (the deferred Flush finds nothing to write)
ReadMessageStep ==
  /\ pc = "reading"
  /\ \E fail \in BOOLEAN, d \in {DecodeFrame(wire)} :
       IF d.panic
       THEN /\ wire' = d.rest
            /\ pc' = "panicked"
            /\ UNCHANGED <<inflight, rx, ws, loc, ret>>
       ELSE
     \E r \in {ReadMessageIter(ws, loc, d, fail)} :
           /\ d.err = ErrEOF => (eof \/ ~ws.connOpen)
           /\ wire' = d.rest
           /\ inflight' = IF inflight = <<>> THEN <<>> ELSE Tail(inflight)
           /\ rx' = IF inflight = <<>> THEN rx ELSE Append(rx, Head(inflight))
           /\ ws' = r.w
           /\ loc' = r.loc
           /\ pc' = IF r.done THEN "returned" ELSE "reading"
           /\ ret' = IF r.done THEN r.ret ELSE ret
  /\ UNCHANGED <<nsent, eof, call, codec, bw>>

Next ==
  \/ PeerSend
  \/ PeerHangup
  \/ ReadMessageCall
  \/ ReadMessageStep

Spec ==
  Init /\ [][Next]_vars

\* ------------------------------------------------------------------------
\* The application's send operations, and a peer that sends back what it
\* was sent
\* ------------------------------------------------------------------------

\* a second masking key
Key2 ==
  <<1, 2, 3, 4>>

\* "ABCDE"
ABCDE ==
  <<65, 66, 67, 68, 69>>

\* U+00E9, two bytes
EAcute ==
  <<195, 169>>

\* bytes that are not UTF-8
NotUtf8 ==
  <<255>>

\* 'A' repeated n times
Filler(n) ==
  [i \in 1..n |-> 65]

\* the messages the application sends as text
SendTexts ==
  {<<>>, Hi, EAcute, NotUtf8, Long126}

\* the data the application sends as binary or in fragments
SendData ==
  {<<>>, Hi, ABCDE, EAcute, NotUtf8}

\* the frame sizes the application asks for
SendFrameSizes ==
  {-1, 0, 1, 2, 3, 5, MaxInt}

\* the opcodes the application asks for
SendOpcodes ==
  {OpContinuation, OpText, OpBinary, 3, OpClose, OpPing, OpPong}

\* what rand.Read draws, frame after frame
KeyStreams ==
  {[i \in 1..5 |-> Key1], <<ZeroKey, Key1, Key2, Key1, Key2>>}

\* the status codes and reasons the application closes with: a reason that
\* fills a control frame (123 bytes) and one that does not fit (124 bytes)
SendCloseCodes ==
  {NormalClosure, 1001, 4000}

SendReasons ==
  {<<>>, Bye, NotUtf8, Filler(payloadLen125OrLess - 2), Filler(payloadLen125OrLess - 1)}

\* the application data of the Pings the application sends
SendPingData ==
  {<<>>, PingData, NotUtf8, Filler(payloadLen125OrLess), Long126}

\* the frames the application answers with a Pong
SendPongFrames ==
  {NilFrame} \cup {NewClientFrame(TRUE, OpPing, p, Key1) : p \in {<<>>, PingData, Long126}}

\* the application may call a send operation: it has not called ReadMessage
\* yet, has not panicked, and has sent fewer than MaxSends times
MaySend ==
  pc = "idle" /\ nsent = 0 /\ ~call.panic /\ call.count < MaxSends

\* the state after a send operation has returned r
Sent(op, args, r, panic) ==
  /\ ws' = r.w
  /\ call' = [op |-> op, args |-> args, err |-> r.err, panic |-> panic,
              pre |-> [ws EXCEPT !.out = <<>>], count |-> call.count + 1]
  /\ UNCHANGED <<wire, inflight, nsent, eof, pc, loc, ret, rx, codec, bw>>

\* the WebSocket at the start of a send operation
Fresh ==
  [ws EXCEPT !.out = <<>>]

WriteTextMessageCall ==
  /\ MaySend
  /\ \E message \in SendTexts, fail \in BOOLEAN :
       Sent("WriteTextMessage", [message |-> message],
            WriteTextMessage(Fresh, message, fail), FALSE)

WriteBinaryMessageCall ==
  /\ MaySend
  /\ \E data \in SendData, fail \in BOOLEAN :
       Sent("WriteBinaryMessage", [data |-> data],
            WriteBinaryMessage(Fresh, data, fail), FALSE)

WriteFragmentedMessageCall ==
  /\ MaySend
  /\ \E data \in SendData, maxFrameSize \in SendFrameSizes, opcode \in SendOpcodes,
        keys \in KeyStreams, fail \in BOOLEAN :
       \E r \in {WriteFragmentedMessage(Fresh, data, maxFrameSize, opcode, keys, fail)} :
         Sent("WriteFragmentedMessage",
              [data |-> data, maxFrameSize |-> maxFrameSize, opcode |-> opcode],
              r, r.panic)

WriteCloseMessageCall ==
  /\ MaySend
  /\ \E code \in SendCloseCodes, reason \in SendReasons, fail \in BOOLEAN :
       Sent("WriteCloseMessage", [code |-> code, reason |-> reason],
            WriteCloseMessage(Fresh, code, reason, fail), FALSE)

WritePingMessageCall ==
  /\ MaySend
  /\ \E applicationData \in SendPingData, fail \in BOOLEAN :
       Sent("WritePingMessage", [applicationData |-> applicationData],
            WritePingMessage(Fresh, applicationData, fail), FALSE)

WritePongMessageCall ==
  /\ MaySend
  /\ \E pingFrame \in SendPongFrames, fail \in BOOLEAN :
       Sent("WritePongMessage", [pingFrame |-> pingFrame],
            WritePongMessage(Fresh, pingFrame, fail), FALSE)

CloseCall ==
  /\ MaySend
  /\ \E fail \in BOOLEAN :
       Sent("Close", <<>>, Close(Fresh, fail), FALSE)

CloseWithCodeCall ==
  /\ MaySend
  /\ \E statusCode \in SendCloseCodes, reason \in SendReasons, fail \in BOOLEAN :
       Sent("CloseWithCode", [statusCode |-> statusCode, reason |-> reason],
            CloseWithCode(Fresh, statusCode, reason, fail), FALSE)

RECURSIVE Flatten(_)
\* the bytes of a sequence of encoded frames, in order
Flatten(ss) ==
  IF ss = <<>> THEN <<>> ELSE Head(ss) \o Flatten(Tail(ss))

\* the description of a frame as its receiver decodes it
PeerFrameOf(f) ==
  PeerFrame(f.Fin, <<f.Rsv1, f.Rsv2, f.Rsv3>>, f.OpCode, f.Masked, f.MaskingKey,
            f.PayloadData)

\* the peer sends back, byte for byte, the frames of the message the last
\* send operation wrote; it does so once
PeerEcho ==
  /\ pc = "idle" /\ nsent = 0 /\ wire = <<>> /\ ~eof
  /\ ws.connOpen /\ ws.out # <<>>
  /\ call.op \in {"WriteTextMessage", "WriteBinaryMessage", "WriteFragmentedMessage"}
  /\ wire' = Flatten(ws.out)
  /\ inflight' = [i \in 1..Len(ws.out) |-> PeerFrameOf(DecodeFrame(ws.out[i]).frame)]
  /\ nsent' = Len(ws.out)
  /\ UNCHANGED <<eof, ws, pc, loc, ret, rx, call, codec, bw>>

SendNext ==
  \/ WriteTextMessageCall
  \/ WriteBinaryMessageCall
  \/ WriteFragmentedMessageCall
  \/ WriteCloseMessageCall
  \/ WritePingMessageCall
  \/ WritePongMessageCall
  \/ CloseCall
  \/ CloseWithCodeCall
  \/ PeerEcho
  \/ ReadMessageCall
  \/ ReadMessageStep

SendSpec ==
  Init /\ [][SendNext]_vars

\* ------------------------------------------------------------------------
\* What the peer sent and what it receives, for the properties below
\* ------------------------------------------------------------------------

\* the last peer frame the current ReadMessage has decoded
LastRx ==
  rx[Len(rx)]

\* the i-th frame written by the current operation, as the peer decodes it
OutFrame(i) ==
  DecodeFrame(ws.out[i]).frame

\* the last frame written by the current operation, as the peer decodes it
LastOut ==
  OutFrame(Len(ws.out))

\* f is a server Close frame: final, unmasked, RSV clear, with a status code
IsCloseOut(f) ==
  /\ f.OpCode = OpClose /\ f.Fin /\ ~f.Masked
  /\ ~f.Rsv1 /\ ~f.Rsv2 /\ ~f.Rsv3
  /\ Len(f.PayloadData) >= 2 /\ f.PayloadLength = Len(f.PayloadData)

\* status code and reason carried by a Close frame
CloseCodeOf(f) ==
  FromBigEndian(Take(f.PayloadData, 2))

CloseReasonOf(f) ==
  Drop(f.PayloadData, 2)

\* the current operation has written a Close frame with this status code as
\* its last frame
ClosedWith(code) ==
  /\ Len(ws.out) >= 1
  /\ IsCloseOut(LastOut)
  /\ CloseCodeOf(LastOut) = code

\* a peer frame with the mask bit and without RSV bits
PeerShapeOk(pf) ==
  pf.masked /\ pf.rsv = NoRsv

\* valid peer frames of each kind
PeerValidData(pf) ==
  PeerShapeOk(pf) /\ pf.opcode \in {OpContinuation, OpText, OpBinary}

PeerValidPing(pf) ==
  PeerShapeOk(pf) /\ pf.opcode = OpPing /\ pf.fin /\ Len(pf.plain) <= 125

PeerValidPong(pf) ==
  PeerShapeOk(pf) /\ pf.opcode = OpPong /\ pf.fin /\ Len(pf.plain) <= 125

\* status code of a peer Close frame with at least two payload bytes
PeerCloseCode(pf) ==
  pf.plain[1] * 256 + pf.plain[2]

\* lo <= c <= hi
Between(c, lo, hi) ==
  c >= lo /\ c <= hi

\* the status codes every reading of the protocol accepts from a peer
AgreedCloseCode(c) ==
  Between(c, 1000, 1003) \/ Between(c, 1007, 1011) \/ Between(c, 3000, 4999)

\* a Close frame of valid shape: masked, final, RSV clear, at most 125 bytes
PeerCloseShapeOk(pf) ==
  PeerShapeOk(pf) /\ pf.opcode = OpClose /\ pf.fin /\ Len(pf.plain) <= 125

\* a valid peer Close frame carrying a status code and a reason
PeerValidCloseWithCode(pf) ==
  /\ PeerCloseShapeOk(pf)
  /\ Len(pf.plain) >= 2
  /\ AgreedCloseCode(PeerCloseCode(pf))
  /\ Utf8Valid(Drop(pf.plain, 2))

RECURSIVE ConcatPlain(_)
\* the plain payloads of peer frames, concatenated in order
ConcatPlain(s) ==
  IF s = <<>> THEN <<>> ELSE Head(s).plain \o ConcatPlain(Tail(s))

\* s is one Text or Binary frame followed by Continuation frames, all valid
\* and none final
DataPrefix(s) ==
  /\ Len(s) >= 1
  /\ \A i \in 1..Len(s) :
       /\ PeerValidData(s[i])
       /\ ~s[i].fin
       /\ (i = 1) <=> (s[i].opcode \in {OpText, OpBinary})
       /\ (i > 1) <=> (s[i].opcode = OpContinuation)

\* s is a whole message: only the last frame is final
DataMessage(s) ==
  /\ Len(s) >= 1
  /\ PeerValidData(s[Len(s)]) /\ s[Len(s)].fin
  /\ IF Len(s) = 1 THEN s[1].opcode \in {OpText, OpBinary}
     ELSE DataPrefix(Take(s, Len(s) - 1)) /\ s[Len(s)].opcode = OpContinuation

\* ------------------------------------------------------------------------
\* Properties
\* ------------------------------------------------------------------------

\* C1: when the frames decoded by a ReadMessage call are one Text or Binary
\* frame followed by Continuation frames, all valid and masked, of which only
\* the last is final, the call returns the first frame's opcode and the
\* plain payloads concatenated in arrival order (a Text message being valid
\* UTF-8), with a nil error and the connection still open; and it does not
\* return before the final frame has arrived.
C1_Reassembly ==
  /\ (/\ rx # <<>>
      /\ DataMessage(rx)
      /\ (rx[1].opcode = OpText => Utf8Valid(ConcatPlain(rx))))
     => (/\ pc = "returned"
         /\ ret = Ret(rx[1].opcode, ConcatPlain(rx), Nil)
         /\ ws.connOpen)
  /\ (rx # <<>> /\ DataPrefix(rx) /\ ~eof)
     => (pc = "reading" /\ ws.connOpen)

\* C1 witness: Text fin=0 "AB" then Continuation fin=1 "CD", masked with a
\* non-zero key, have been returned as (Text, "ABCD")
C1_Witness ==
  /\ pc = "returned"
  /\ rx = <<PeerFrame(FALSE, NoRsv, OpText, TRUE, Key1, AB),
            PeerFrame(TRUE, NoRsv, OpContinuation, TRUE, Key1, CD)>>
  /\ ret = Ret(OpText, <<65, 66, 67, 68>>, Nil)

\* C2: an iteration of ReadMessage that decodes a valid Ping writes, when
\* the transport accepts the write, exactly one frame, a final unmasked Pong
\* with the Ping's payload; the call does not return and its assembly state
\* (payload, first opcode, in-progress flag) is unchanged.
C2_PingAnswered ==
  [][(/\ pc = "reading"
      /\ inflight # <<>>
      /\ PeerValidPing(Head(inflight))
      /\ rx' = Append(rx, Head(inflight))
      /\ ~ws'.refused)
     => (/\ Len(ws'.out) = Len(ws.out) + 1
         /\ Take(ws'.out, Len(ws.out)) = ws.out
         /\ LET pong == DecodeFrame(ws'.out[Len(ws'.out)]).frame
            IN  /\ pong.OpCode = OpPong /\ pong.Fin /\ ~pong.Masked
                /\ pong.PayloadData = Head(inflight).plain
         /\ pc' = "reading"
         /\ loc' = loc
         /\ ws'.connOpen)]_vars

\* C2 witness: a Ping "ping-data" has been answered while the message
\* started by Text fin=0 "AB" is in progress
C2_Witness ==
  /\ pc = "reading"
  /\ Len(rx) = 2
  /\ rx[1] = PeerFrame(FALSE, NoRsv, OpText, TRUE, Key1, AB)
  /\ rx[2] = PeerFrame(TRUE, NoRsv, OpPing, TRUE, Key1, PingData)
  /\ Len(ws.out) = 1
  /\ OutFrame(1).OpCode = OpPong /\ OutFrame(1).PayloadData = PingData
  /\ loc = [payload |-> AB, firstOpCode |-> OpText, inFragmentedMessage |-> TRUE]

\* the status codes every reading of the protocol refuses from a peer
AgreedBadCloseCode(c) ==
  \/ Between(c, 0, 999) \/ Between(c, 1004, 1006)
  \/ Between(c, 1012, 1014) \/ Between(c, 1016, 2999)

\* a data frame (opcode below 0x8)
NotControl(pf) ==
  pf.opcode < 8

\* the data frames among the frames the current ReadMessage has decoded
RxData ==
  SelectSeq(rx, NotControl)

\* the last decoded frame breaks a frame-shape rule: no mask, a fragmented or
\* long control frame, a reserved opcode, an RSV bit, a one-byte Close
\* payload, a refused close code
RxShapeViolation ==
  LET pf == LastRx
  IN  \/ ~pf.masked
      \/ pf.opcode >= 8 /\ (Len(pf.plain) > 125 \/ ~pf.fin)
      \/ pf.opcode \notin {OpContinuation, OpText, OpBinary, OpClose, OpPing, OpPong}
      \/ pf.rsv # NoRsv
      \/ pf.opcode = OpClose /\ Len(pf.plain) = 1
      \/ pf.opcode = OpClose /\ Len(pf.plain) >= 2 /\ AgreedBadCloseCode(PeerCloseCode(pf))

\* the last decoded frame is a well-shaped Close with an accepted code and a
\* reason that is not UTF-8
RxCloseReasonViolation ==
  /\ PeerCloseShapeOk(LastRx)
  /\ Len(LastRx.plain) > 2
  /\ AgreedCloseCode(PeerCloseCode(LastRx))
  /\ ~Utf8Valid(Drop(LastRx.plain, 2))

\* the last decoded frame is a valid Continuation and no data frame came
\* before it in this call
RxContinuationWithoutStart ==
  /\ PeerValidData(LastRx) /\ LastRx.opcode = OpContinuation
  /\ Len(RxData) = 1

\* the last decoded frame is a valid Text or Binary frame and a data frame
\* came before it in this call
RxNewDataWhilePending ==
  /\ PeerValidData(LastRx) /\ LastRx.opcode \in {OpText, OpBinary}
  /\ Len(RxData) >= 2

\* the last decoded frame completes a Text message that is not UTF-8
RxTextNotUtf8 ==
  /\ NotControl(LastRx)
  /\ DataMessage(RxData)
  /\ RxData[1].opcode = OpText
  /\ ~Utf8Valid(ConcatPlain(RxData))

\* C3: when the last frame a ReadMessage call has decoded is a violation
\* (a frame the validator rejects, a Continuation without a start, a new
\* data frame while a message is pending, a completed Text message that is
\* not UTF-8), the call has returned an error and closed the connection, and,
\* the transport not having refused a write, the last frame written is a
\* Close with the violation's status code (1007 for the two UTF-8
\* violations, 1002 for the others), equal to ws.status, and a non-empty
\* reason; and no call that decoded a frame returns a protocol error with
\* the connection closed and no such Close frame written.
C3_ViolationClosed ==
  LET Closed(codes) ==
        /\ Len(ws.out) >= 1
        /\ IsCloseOut(LastOut)
        /\ CloseCodeOf(LastOut) \in codes
        /\ CloseCodeOf(LastOut) = ws.status
        /\ CloseReasonOf(LastOut) # <<>>
  IN
  /\ (rx # <<>> /\ (RxCloseReasonViolation \/ RxTextNotUtf8))
     => (/\ pc = "returned" /\ ret.err # Nil /\ ~ws.connOpen
         /\ ~ws.refused => Closed({GotInconsistentData}))
  /\ (rx # <<>> /\ (RxShapeViolation \/ RxContinuationWithoutStart \/ RxNewDataWhilePending))
     => (/\ pc = "returned" /\ ret.err # Nil /\ ~ws.connOpen
         /\ ~ws.refused => Closed({ProtocolError}))
  /\ (pc = "returned" /\ rx # <<>> /\ ret.err \notin {Nil, ErrEOF, ErrMsb} /\ ~ws.refused)
     => (~ws.connOpen /\ Closed({ProtocolError, GotInconsistentData}))

\* C3 witness: a Text message completed by a Continuation is not UTF-8 and
\* has been answered with Close(1007) and the connection closed
C3_Witness ==
  /\ pc = "returned"
  /\ Len(rx) = 2
  /\ RxTextNotUtf8
  /\ ClosedWith(GotInconsistentData)
  /\ CloseReasonOf(LastOut) = MsgTextUtf8
  /\ ~ws.connOpen

\* C4: a decoded frame without the mask bit, whatever its opcode, fin, RSV
\* bits and payload, ends the call: ws.status is ProtocolError, an error and
\* no message are returned, the connection is closed, and, the transport not
\* having refused the write, the last frame written is Close(1002) and the
\* error is the validator's "unmasked client frame".
C4_UnmaskedRejected ==
  \A i \in 1..Len(rx) :
    ~rx[i].masked
    => (/\ i = Len(rx)
        /\ pc = "returned"
        /\ ret.messageType = 0 /\ ret.data = <<>> /\ ret.err # Nil
        /\ ws.status = ProtocolError
        /\ ~ws.connOpen
        /\ ~ws.refused => (ClosedWith(ProtocolError) /\ ret.err = MsgUnmasked))

\* C4 witness: an unmasked, non-final Ping with RSV1 and a payload has been
\* answered with Close(1002)
C4_Witness ==
  /\ pc = "returned"
  /\ rx # <<>>
  /\ LastRx = PeerFrame(FALSE, <<TRUE, FALSE, FALSE>>, OpPing, FALSE, ZeroKey,
                        BigEndian(NormalClosure, 2))
  /\ ClosedWith(ProtocolError)

\* C5: a valid Continuation frame decoded when only Ping and Pong frames
\* came before it in the call ends the call, whatever its fin bit: an error
\* and no message are returned, ws.status is ProtocolError, the connection
\* is closed, and, the transport not having refused a write, the last frame
\* written is Close(1002).
C5_ContinuationWhileIdle ==
  (/\ rx # <<>>
   /\ PeerValidData(LastRx) /\ LastRx.opcode = OpContinuation
   /\ \A i \in 1..(Len(rx) - 1) : rx[i].opcode \in {OpPing, OpPong})
  => (/\ pc = "returned"
      /\ ret.messageType = 0 /\ ret.data = <<>> /\ ret.err # Nil
      /\ ws.status = ProtocolError
      /\ ~ws.connOpen
      /\ ~ws.refused => ClosedWith(ProtocolError))

\* C5 witness: a non-final Continuation after a Ping has been answered with
\* Close(1002), after the Pong
C5_Witness ==
  /\ pc = "returned"
  /\ Len(rx) = 2
  /\ rx[1].opcode = OpPing
  /\ rx[2] = PeerFrame(FALSE, NoRsv, OpContinuation, TRUE, Key1, CD)
  /\ Len(ws.out) = 2
  /\ OutFrame(1).OpCode = OpPong
  /\ ClosedWith(ProtocolError)
  /\ ~ws.connOpen

\* C6: a valid Text or Binary frame decoded after another data frame of the
\* same call (a message is in progress) ends the call: an error, opcode 0
\* and no data are returned, ws.status is ProtocolError, the connection is
\* closed, and, the transport not having refused a write, the last frame
\* written is Close(1002).
C6_NewDataWhileInProgress ==
  (/\ Len(rx) >= 2
   /\ PeerValidData(LastRx) /\ LastRx.opcode \in {OpText, OpBinary}
   /\ \E i \in 1..(Len(rx) - 1) : NotControl(rx[i]))
  => (/\ pc = "returned"
      /\ ret.messageType = 0 /\ ret.data = <<>> /\ ret.err # Nil
      /\ ws.status = ProtocolError
      /\ ~ws.connOpen
      /\ ~ws.refused => ClosedWith(ProtocolError))

\* C6 witness: a final Binary frame after Text fin=0 "AB" has been answered
\* with Close(1002) and nothing was returned
C6_Witness ==
  /\ pc = "returned"
  /\ Len(rx) = 2
  /\ rx[1] = PeerFrame(FALSE, NoRsv, OpText, TRUE, Key1, AB)
  /\ rx[2] = PeerFrame(TRUE, NoRsv, OpBinary, TRUE, Key1, AB)
  /\ ret.data = <<>> /\ ret.err # Nil
  /\ ClosedWith(ProtocolError)

\* C7: when the last decoded frame is a valid Close with an empty payload
\* and the transport has not refused a write, the Close frame written in
\* reply carries status 1000.
C7_EmptyCloseAnsweredNormal ==
  (/\ pc = "returned"
   /\ rx # <<>>
   /\ PeerCloseShapeOk(LastRx) /\ LastRx.plain = <<>>
   /\ ~ws.refused)
  => ClosedWith(NormalClosure)

\* C8: a valid Close frame carrying status code c and reason r ends the
\* call with the connection closed and no further frame decoded; the
\* transport not having refused a write, the call returns (OpClose, no data,
\* nil) and has written exactly one Close frame, its last frame, carrying
\* the same c and r.
C8_CloseEchoed ==
  \A i \in 1..Len(rx) :
    PeerValidCloseWithCode(rx[i])
    => (/\ i = Len(rx)
        /\ pc = "returned"
        /\ ~ws.connOpen
        /\ ~ws.refused
           => (/\ ret = Ret(OpClose, <<>>, Nil)
               /\ ClosedWith(PeerCloseCode(rx[i]))
               /\ CloseReasonOf(LastOut) = Drop(rx[i].plain, 2)
               /\ Cardinality({j \in 1..Len(ws.out) : OutFrame(j).OpCode = OpClose}) = 1))

\* C8 witness: Close(3000, "bye") has been echoed after a Ping was answered
C8_Witness ==
  /\ pc = "returned"
  /\ Len(rx) = 2
  /\ rx[1].opcode = OpPing
  /\ rx[2] = PeerFrame(TRUE, NoRsv, OpClose, TRUE, Key1, BigEndian(3000, 2) \o Bye)
  /\ ret = Ret(OpClose, <<>>, Nil)
  /\ Len(ws.out) = 2
  /\ LastOut.PayloadData = BigEndian(3000, 2) \o Bye
  /\ ~ws.connOpen

\* the last decoded frame is a masked, final Close of at most 125 bytes with
\* RSV clear, a status code and a reason that is valid UTF-8 or absent
RxCloseWithCode ==
  /\ pc = "returned"
  /\ rx # <<>>
  /\ PeerCloseShapeOk(LastRx)
  /\ Len(LastRx.plain) >= 2
  /\ Utf8Valid(Drop(LastRx.plain, 2))
  /\ ~ws.refused

\* the call has accepted the peer's Close frame
CloseAccepted ==
  ret = Ret(OpClose, <<>>, Nil)

\* C9 as stated: such a Close frame is accepted if and only if its status
\* code lies in 1000-1003, 1007-1011, {1015} or 3000-4999.
C9_CloseCodesAsStated ==
  RxCloseWithCode
  => (CloseAccepted
      <=> LET c == PeerCloseCode(LastRx)
          IN  \/ Between(c, 1000, 1003) \/ Between(c, 1007, 1011)
              \/ c = 1015 \/ Between(c, 3000, 4999))

\* C9 amended: such a Close frame is accepted if and only if its status
\* code lies in 1000-1003, 1007-1011 or 3000-65535; 1015 is refused and every
\* code from 5000 on is accepted.  A refused frame is reported as
\* "protocol error: invalid close code <code>".
C9_CloseCodesAccepted ==
  RxCloseWithCode
  => /\ CloseAccepted
        <=> LET c == PeerCloseCode(LastRx)
            IN  \/ Between(c, 1000, 1003) \/ Between(c, 1007, 1011)
                \/ Between(c, 3000, 65535)
     /\ ~CloseAccepted
        => ret = Ret(0, <<>>, MsgCloseCodePrefix \o Fmt(PeerCloseCode(LastRx), 10))

\* C9 witness: a Close frame with status 5000 has been accepted and echoed
C9_Witness ==
  /\ RxCloseWithCode
  /\ PeerCloseCode(LastRx) = 5000
  /\ CloseAccepted
  /\ ClosedWith(5000)

\* C10: a Close frame whose status code is below 1000, in 1004-1006 or in
\* 1012-2999 ends the call: an error and no message are returned, ws.status
\* is ProtocolError, the connection is closed, no Close frame written
\* carries the offending code, and, the transport not having refused the
\* write, the last frame written is Close(1002).
C10_BadCloseCodeRejected ==
  \A i \in 1..Len(rx) :
    (/\ rx[i].opcode = OpClose
     /\ Len(rx[i].plain) >= 2
     /\ LET c == PeerCloseCode(rx[i])
        IN  Between(c, 0, 999) \/ Between(c, 1004, 1006) \/ Between(c, 1012, 2999))
    => (/\ i = Len(rx)
        /\ pc = "returned"
        /\ ret.messageType = 0 /\ ret.data = <<>> /\ ret.err # Nil
        /\ ws.status = ProtocolError
        /\ ~ws.connOpen
        /\ \A j \in 1..Len(ws.out) :
             OutFrame(j).OpCode = OpClose
             => CloseCodeOf(OutFrame(j)) # PeerCloseCode(rx[i])
        /\ ~ws.refused => ClosedWith(ProtocolError))

\* C10 witness: Close(1005, "bye") has been answered with Close(1002)
C10_Witness ==
  /\ pc = "returned"
  /\ rx # <<>>
  /\ LastRx = PeerFrame(TRUE, NoRsv, OpClose, TRUE, Key1, BigEndian(NoStatusCode1005, 2) \o Bye)
  /\ ClosedWith(ProtocolError)
  /\ ~ws.connOpen

\* the number of frames with this opcode the current operation has written
OutCount(opcode) ==
  Cardinality({j \in 1..Len(ws.out) : OutFrame(j).OpCode = opcode})

\* the number of valid Ping frames among the first n decoded frames
RxValidPings(n) ==
  Cardinality({j \in 1..n : PeerValidPing(rx[j])})

\* C11: a decoded control frame (opcode 8 or above) that carries more than
\* 125 payload bytes, final or not, or that is not final, whatever its
\* length, ends the call: an error and no message are returned, ws.status is
\* ProtocolError and the connection is closed; no Pong is written for it (the
\* Pongs written are those of the valid Pings before it) and no Close frame
\* written carries a code other than 1002; the transport not having refused
\* a write, the last frame written is the only Close, Close(1002), and a
\* masked frame is reported as the control-frame violation.
C11_BadControlRejected ==
  \A i \in 1..Len(rx) :
    (rx[i].opcode >= 8 /\ (Len(rx[i].plain) > 125 \/ ~rx[i].fin))
    => (/\ i = Len(rx)
        /\ pc = "returned"
        /\ ret.messageType = 0 /\ ret.data = <<>> /\ ret.err # Nil
        /\ ws.status = ProtocolError
        /\ ~ws.connOpen
        /\ OutCount(OpPong) <= RxValidPings(i - 1)
        /\ \A j \in 1..Len(ws.out) :
             OutFrame(j).OpCode = OpClose => CloseCodeOf(OutFrame(j)) = ProtocolError
        /\ ~ws.refused
           => (/\ ClosedWith(ProtocolError)
               /\ OutCount(OpClose) = 1
               /\ OutCount(OpPong) = RxValidPings(i - 1)
               /\ rx[i].masked => ret.err = MsgControlShape))

\* C11 witness: a non-final Ping carrying "ping-data", after a valid Ping, has
\* been answered with Close(1002) and no second Pong
C11_Witness ==
  /\ pc = "returned"
  /\ Len(rx) = 2
  /\ PeerValidPing(rx[1])
  /\ rx[2] = PeerFrame(FALSE, NoRsv, OpPing, TRUE, Key1, PingData)
  /\ Len(ws.out) = 2
  /\ OutFrame(1).OpCode = OpPong
  /\ ClosedWith(ProtocolError)
  /\ ret.err = MsgControlShape

\* C11 witness of the other case: a final Pong of 126 bytes has been
\* answered with Close(1002)
C11_WitnessLong ==
  /\ pc = "returned"
  /\ rx # <<>>
  /\ LastRx = PeerFrame(TRUE, NoRsv, OpPong, TRUE, Key1, Long126)
  /\ ClosedWith(ProtocolError)

\* C12: the UTF-8 test of a Text message is made on the whole message when
\* its final frame arrives.  A non-final data frame does not end the call,
\* whatever its bytes (only a failed read of the next frame does); a completed Text message that is valid UTF-8 is
\* returned, whether or not its fragments are; a completed Text message that
\* is not valid UTF-8 ends the call with an error, ws.status 1007, the
\* connection closed and, the transport not having refused a write, Close(1007)
\* as the last frame written; a completed Binary message is returned
\* whatever its bytes.
C12_Utf8OnWholeMessage ==
  /\ (rx # <<>> /\ NotControl(LastRx) /\ DataPrefix(RxData))
     => \/ pc = "reading" /\ ws.connOpen /\ OutCount(OpClose) = 0
        \/ pc = "returned" /\ eof /\ ret.messageType = 0 /\ ret.err \in {ErrEOF, ErrWrite}
  /\ (rx # <<>> /\ NotControl(LastRx) /\ DataMessage(RxData))
     => /\ pc = "returned"
        /\ IF RxData[1].opcode = OpBinary \/ Utf8Valid(ConcatPlain(RxData))
           THEN /\ ret = Ret(RxData[1].opcode, ConcatPlain(RxData), Nil)
                /\ ws.connOpen
                /\ OutCount(OpClose) = 0
           ELSE /\ ret.messageType = 0 /\ ret.data = <<>> /\ ret.err # Nil
                /\ ws.status = GotInconsistentData
                /\ ~ws.connOpen
                /\ ~ws.refused => ClosedWith(GotInconsistentData)

\* C12 witness: the two bytes of U+00E9 arrive in two Text fragments, neither
\* valid UTF-8 alone, and are returned as one Text message
C12_Witness ==
  /\ pc = "returned"
  /\ rx = <<PeerFrame(FALSE, NoRsv, OpText, TRUE, Key1, <<195>>),
            PeerFrame(TRUE, NoRsv, OpContinuation, TRUE, Key1, <<169>>)>>
  /\ ~Utf8Valid(rx[1].plain) /\ ~Utf8Valid(rx[2].plain)
  /\ ret = Ret(OpText, <<195, 169>>, Nil)
  /\ ws.connOpen

\* the last send operation has just returned
JustSent(op) ==
  pc = "idle" /\ nsent = 0 /\ call.op = op

\* C13: every frame a send operation or ReadMessage has written has the
\* mask bit and the three RSV bits clear.
C13_WrittenFramesUnmasked ==
  \A i \in 1..Len(ws.out) :
    LET f == OutFrame(i)
    IN  ~f.Masked /\ ~f.Rsv1 /\ ~f.Rsv2 /\ ~f.Rsv3

\* the control payload a send operation asks for: the status code and the
\* reason of a Close, the application data of a Ping, the payload of the
\* frame a Pong answers
ControlPayloadAsked ==
  IF call.op \in {"WriteCloseMessage", "CloseWithCode"} THEN 2 + Len(call.args.reason)
  ELSE IF call.op = "WritePingMessage" THEN Len(call.args.applicationData)
  ELSE IF call.op = "WritePongMessage" /\ call.args.pingFrame # NilFrame
  THEN Len(call.args.pingFrame.PayloadData)
  ELSE 0

\* C14: every control frame written is final and carries at most 125
\* payload bytes, and a send operation asked for a control payload of more
\* than 125 bytes returns an error and writes nothing.
C14_ControlFramesShort ==
  /\ \A i \in 1..Len(ws.out) :
       LET f == OutFrame(i)
       IN  f.OpCode >= 8
           => f.Fin /\ f.PayloadLength <= 125 /\ Len(f.PayloadData) <= 125
  /\ (pc = "idle" /\ nsent = 0 /\ ControlPayloadAsked > 125)
     => (call.err # Nil /\ ws.out = <<>>)

\* a send operation has just been given text that is not UTF-8: the message
\* of WriteTextMessage, the reason of WriteCloseMessage or CloseWithCode
SentInvalidText ==
  \/ JustSent("WriteTextMessage") /\ ~Utf8Valid(call.args.message)
  \/ JustSent("WriteCloseMessage") /\ ~Utf8Valid(call.args.reason)
  \/ JustSent("CloseWithCode") /\ ~Utf8Valid(call.args.reason)

FragmentsOf(data, n, opcode) ==
  LET L == Len(data)
      k == Len(ws.out)
  IN  /\ k = (IF L = 0 THEN 1 ELSE ((L - 1) \div n) + 1)
      /\ \A i \in 1..k :
           LET f == OutFrame(i)
           IN  /\ f.OpCode = (IF i = 1 THEN opcode ELSE OpContinuation)
               /\ f.Fin <=> (i = k)
               /\ f.PayloadLength = Len(f.PayloadData)
               /\ Len(f.PayloadData) <= n
      /\ Flatten([i \in 1..k |-> OutFrame(i).PayloadData]) = data

\* C16: WriteFragmentedMessage with maxFrameSize n >= 1 and opcode Text or
\* Binary returns normally and, unless the write failed, has written
\* ceil(L/n) frames (one empty frame for L = 0), the first with the caller's
\* opcode and the others Continuation, only the last final, each payload of
\* at most n bytes, the payloads making up data; on a connection that is open
\* and whose transport accepts the write, the write does not fail.
C16_Fragmentation ==
  (/\ JustSent("WriteFragmentedMessage")
   /\ call.args.maxFrameSize >= 1
   /\ call.args.opcode \in {OpText, OpBinary})
  => /\ ~call.panic
     /\ call.err \in {Nil, ErrWrite}
     /\ call.err = Nil
        => FragmentsOf(call.args.data, call.args.maxFrameSize, call.args.opcode)
     /\ (call.pre.connOpen /\ ~call.pre.werr /\ ~ws.refused) => call.err = Nil

\* C17: WriteFragmentedMessage with maxFrameSize <= 0, or with an opcode
\* other than Text and Binary, returns the error of the test that failed
\* (the size is tested first), writes nothing and leaves the WebSocket as it
\* was.
C17_FragmentArgsRejected ==
  (/\ JustSent("WriteFragmentedMessage")
   /\ (call.args.maxFrameSize <= 0 \/ call.args.opcode \notin {OpText, OpBinary}))
  => /\ ~call.panic
     /\ call.err = (IF call.args.maxFrameSize <= 0 THEN ErrMaxFrameSize
                    ELSE ErrInitialOpcode)
     /\ ws.out = <<>>
     /\ ws = call.pre

\* C17 witness: WriteFragmentedMessage("hi", 5, OpPing) has been refused
C17_Witness ==
  /\ JustSent("WriteFragmentedMessage")
  /\ call.args = [data |-> Hi, maxFrameSize |-> 5, opcode |-> OpPing]
  /\ call.err = ErrInitialOpcode
  /\ ws.out = <<>> /\ ws.connOpen

\* C18: the frames WriteFragmentedMessage(data, n, Text) writes for n >= 1,
\* sent back byte for byte and read by ReadMessage, are returned as one Text
\* message whose payload is data; the call does not panic.
C18_FragmentRoundTrip ==
  (/\ call.op = "WriteFragmentedMessage"
   /\ call.args.maxFrameSize >= 1
   /\ call.args.opcode = OpText)
  => /\ ~call.panic
     /\ (nsent > 0 /\ pc = "returned") => ret = Ret(OpText, call.args.data, Nil)

\* ------------------------------------------------------------------------
\* The frame codec on its own: a caller holds a Frame, runs MaskPayload on
\* it, encodes it with MarshalBinary and decodes the bytes with DecodeFrame
\* ------------------------------------------------------------------------

\* how often the caller runs MaskPayload on its Frame
MaxMasks ==
  2

\* the Frames a caller holds: every flag, data, control and reserved opcodes,
\* payloads of each inline size class and of the first 16-bit size, masking
\* keys zero and not; a Frame with Masked unset may carry any bytes in
\* MaskingKey
CodecFrames ==
  { [Fin |-> fin, Rsv1 |-> rsv[1], Rsv2 |-> rsv[2], Rsv3 |-> rsv[3],
     OpCode |-> opcode, Masked |-> masked, PayloadLength |-> Len(payload),
     MaskingKey |-> key, PayloadData |-> payload] :
      fin \in BOOLEAN,
      rsv \in {<<FALSE, FALSE, FALSE>>, <<TRUE, FALSE, TRUE>>, <<FALSE, TRUE, FALSE>>},
      opcode \in {OpContinuation, OpText, OpBinary, 3, OpClose, OpPing, OpPong, 15},
      masked \in BOOLEAN,
      key \in {ZeroKey, Key1, Key2},
      payload \in {<<>>, Hi, ABCDE, Filler(payloadLen125OrLess), Long126} }

\* Frames at the two ends of the 16-bit length: 65535 and 65536 payload
\* bytes, unmasked and masked under the zero key
CodecLongFrames ==
  { [Fin |-> TRUE, Rsv1 |-> FALSE, Rsv2 |-> FALSE, Rsv3 |-> FALSE,
     OpCode |-> OpBinary, Masked |-> masked, PayloadLength |-> Len(payload),
     MaskingKey |-> ZeroKey, PayloadData |-> payload] :
      masked \in BOOLEAN,
      payload \in {Filler(MaxUint16), Filler(MaxUint16 + 1)} }

\* the caller holds one of the Frames; no connection is in use
CodecInit ==
  /\ wire = <<>>
  /\ inflight = <<>>
  /\ nsent = 0
  /\ eof = FALSE
  /\ ws = [out |-> <<>>, connOpen |-> TRUE, werr |-> FALSE, refused |-> FALSE,
           status |-> NormalClosure]
  /\ pc = "idle"
  /\ loc = InitLoc
  /\ ret = Ret(0, <<>>, Nil)
  /\ rx = <<>>
  /\ call = NoCall
  /\ bw = NoWriters
  /\ \E f \in CodecFrames \cup CodecLongFrames :
       codec = [NoCodec EXCEPT !.f = f, !.orig = f]

\* f.MaskPayload()
CodecMaskPayload ==
  /\ codec.sent = NilFrame
  /\ codec.masks < MaxMasks
  /\ codec' = [codec EXCEPT !.f = MaskPayload(codec.f), !.masks = codec.masks + 1]
  /\ UNCHANGED <<wire, inflight, nsent, eof, ws, pc, loc, ret, rx, call, bw>>

\* f.MarshalBinary()
CodecMarshalBinary ==
  /\ codec.sent = NilFrame
  /\ codec' = [codec EXCEPT !.sent = codec.f, !.bytes = MarshalBinary(codec.f)]
  /\ UNCHANGED <<wire, inflight, nsent, eof, ws, pc, loc, ret, rx, call, bw>>

\* DecodeFrame on a reader that delivers the bytes MarshalBinary returned
CodecDecodeFrame ==
  /\ codec.sent # NilFrame
  /\ codec.got = NilFrame
  /\ codec' = [codec EXCEPT !.got = DecodeFrame(codec.bytes)]
  /\ UNCHANGED <<wire, inflight, nsent, eof, ws, pc, loc, ret, rx, call, bw>>

CodecNext ==
  \/ CodecMaskPayload
  \/ CodecMarshalBinary
  \/ CodecDecodeFrame

CodecSpec ==
  CodecInit /\ [][CodecNext]_vars

\* a valid Frame: PayloadLength is the length of the payload and fits 63
\* bits, and the masking key is present only when Masked is set
ValidFrame(f) ==
  /\ f.PayloadLength = Len(f.PayloadData)
  /\ f.OpCode \in 0..15
  /\ ~f.Masked => f.MaskingKey = ZeroKey

\* C19: decoding the bytes MarshalBinary returns for a valid Frame, masked
\* or not, gives without error a Frame equal to it in every field, payload
\* bytes included, and leaves no byte unread.
C19_CodecRoundTrip ==
  (codec.got # NilFrame /\ ValidFrame(codec.sent))
  => /\ codec.got.err = Nil
     /\ codec.got.frame = codec.sent
     /\ codec.got.rest = <<>>

\* C20: MaskPayload XORs byte i of the payload with MaskingKey[i mod 4], so
\* that running it an even number of times leaves the Frame as it was and an
\* odd number of times leaves it masked once; on a Frame with an empty
\* payload or with Masked unset it changes nothing, whatever the key.
C20_MaskInvolution ==
  codec.f # NilFrame
  => LET o == codec.orig
         once == [o EXCEPT !.PayloadData =
                    [i \in 1..Len(o.PayloadData) |->
                       Xor(o.PayloadData[i], o.MaskingKey[((i - 1) % 4) + 1])]]
     IN  /\ codec.masks % 2 = 0 => codec.f = o
         /\ (~o.Masked \/ o.PayloadData = <<>>) => codec.f = o
         /\ (codec.masks % 2 = 1 /\ o.Masked) => codec.f = once
         /\ (codec.masks = 1 /\ o.Masked /\ o.PayloadData = ABCDE /\ o.MaskingKey = Key1)
            => codec.f.PayloadData = <<118, 184, 98, 121, 114>>

\* C20 witness: MaskPayload has run twice on a masked Frame holding "ABCDE"
\* under the key 37 FA 21 3D and the payload is "ABCDE" again
C20_Witness ==
  /\ codec.masks = 2
  /\ codec.orig.Masked /\ codec.orig.MaskingKey = Key1
  /\ codec.orig.PayloadData = ABCDE
  /\ codec.f.PayloadData = ABCDE

\* C20 witness: MaskPayload has run on a Frame with Masked unset and a key
\* that is not zero, and on a masked Frame with an empty payload
C20_WitnessNoOp ==
  /\ codec.masks = 1
  /\ codec.orig.MaskingKey = Key1
  /\ \/ ~codec.orig.Masked /\ codec.orig.PayloadData = Hi
     \/ codec.orig.Masked /\ codec.orig.PayloadData = <<>>
  /\ codec.f = codec.orig

\* C21: MarshalBinary writes the shortest length field: a payloadLength of at
\* most 125 in the 7 low bits of the second byte, one of 126..65535 as 126
\* followed by the length in 2 big-endian bytes, one of 65536 or more as 127
\* followed by the length in 8 big-endian bytes; the masking key, when the
\* Frame is masked, and then the payload follow the length field at once
\* (offset 2, 4 or 10), and nothing follows the payload.
C21_MinimalLength ==
  codec.sent # NilFrame
  => LET f == codec.sent
         b == codec.bytes
         L == f.PayloadLength
         off == IF L <= 125 THEN 2 ELSE IF L <= 65535 THEN 4 ELSE 10
         k == IF f.Masked THEN 4 ELSE 0
     IN  /\ Len(b) = off + k + Len(f.PayloadData)
         /\ b[2] % 128 = (IF L <= 125 THEN L ELSE IF L <= 65535 THEN 126 ELSE 127)
         /\ (b[2] >= 128) <=> f.Masked
         /\ off = 4 => b[3] * 256 + b[4] = L
         /\ off = 10
            => /\ \A i \in 3..7 : b[i] = 0
               /\ (b[8] * 256 + b[9]) * 256 + b[10] = L
         /\ f.Masked => SubSeq(b, off + 1, off + 4) = f.MaskingKey
         /\ SubSeq(b, off + k + 1, Len(b)) = f.PayloadData

\* C21 witness: a masked Frame of 126 payload bytes is encoded with 126 and
\* the 2 bytes 00 7E, the key at offset 4 and the payload at offset 8
C21_Witness ==
  /\ codec.sent # NilFrame
  /\ codec.sent.Masked /\ codec.sent.MaskingKey = Key1
  /\ codec.sent.PayloadLength = 126
  /\ SubSeq(codec.bytes, 2, 8) = <<254, 0, 126>> \o Key1
  /\ Len(codec.bytes) = 134

\* C21 witness: an unmasked Frame of 125 payload bytes is encoded inline, the
\* payload at offset 2
C21_WitnessInline ==
  /\ codec.sent # NilFrame
  /\ ~codec.sent.Masked
  /\ codec.sent.PayloadLength = 125
  /\ codec.bytes[2] = 125
  /\ Len(codec.bytes) = 127

\* the status code and reason the last Close or CloseWithCode sends
ClosingCode ==
  IF call.op = "CloseWithCode" THEN call.args.statusCode ELSE call.pre.status

ClosingReason ==
  IF call.op = "CloseWithCode" THEN call.args.reason ELSE <<>>

\* C22: when Close or CloseWithCode has returned the connection is closed,
\* whether the Close frame was built and written or not.  It returns nil
\* exactly when the connection was open, the reason is UTF-8 and the
\* transport accepted the write, and then one Close frame with the status
\* code and the reason was written while the connection was still open.
C22_CloseReleases ==
  (JustSent("Close") \/ JustSent("CloseWithCode"))
  => /\ ~ws.connOpen
     /\ call.err = Nil
        <=> (/\ call.pre.connOpen /\ ~call.pre.werr /\ ~ws.refused
             /\ Utf8Valid(ClosingReason))
     /\ call.err = Nil
        => /\ Len(ws.out) = 1
           /\ IsCloseOut(LastOut)
           /\ CloseCodeOf(LastOut) = ClosingCode
           /\ CloseReasonOf(LastOut) = ClosingReason
     /\ call.err # Nil => ws.out = <<>>

\* C22 witness: the transport refused the Close frame of Close and the
\* connection is closed all the same
C22_Witness ==
  /\ JustSent("Close")
  /\ call.pre.connOpen /\ ws.refused
  /\ call.err = ErrWrite
  /\ ws.out = <<>> /\ ~ws.connOpen

\* C22 witness: CloseWithCode(1001, "bye") has written its Close frame and
\* closed the connection
C22_WitnessWritten ==
  /\ JustSent("CloseWithCode")
  /\ call.args = [statusCode |-> 1001, reason |-> Bye]
  /\ call.err = Nil
  /\ ws.out = <<<<136, 5, 3, 233, 98, 121, 101>>>>
  /\ ~ws.connOpen

\* C23: when the transport's read side has failed before the first header
\* byte of the next frame (the peer sends whole frames, so every read failure
\* is one), ReadMessage has returned an error and no message, has closed the
\* connection, and has written no Close frame.
C23_NoCloseOnReadFailure ==
  (pc = "returned" /\ eof)
  => /\ ret.err # Nil /\ ret.messageType = 0 /\ ret.data = <<>>
     /\ ~ws.connOpen
     /\ OutCount(OpClose) = 0

\* ------------------------------------------------------------------------
\* A session that goes on after it was closed: the peer's frames arrive in
\* bursts, which the buffered reader takes from the connection in one read,
\* and the application reads and sends again after the connection was closed
\* ------------------------------------------------------------------------

\* the number of frames in a burst
MaxBurst ==
  2

\* the frames of a burst: a Close, a Text message, two Pings, the start of a
\* fragmented message, and a frame without a mask
BurstFrames ==
  {PeerFrame(TRUE, NoRsv, OpClose, TRUE, Key1, BigEndian(NormalClosure, 2)),
   PeerFrame(TRUE, NoRsv, OpText, TRUE, ZeroKey, Hi),
   PeerFrame(TRUE, NoRsv, OpPing, TRUE, Key1, PingData),
   PeerFrame(TRUE, NoRsv, OpPing, TRUE, Key1, <<>>),
   PeerFrame(FALSE, NoRsv, OpBinary, TRUE, Key1, AB),
   PeerFrame(TRUE, NoRsv, OpContinuation, TRUE, Key1, CD),
   PeerFrame(TRUE, NoRsv, OpText, FALSE, ZeroKey, <<>>)}

Bursts ==
  UNION {[1..n -> BurstFrames] : n \in 1..MaxBurst}

\* the peer sends a burst to the session waiting in ReadMessage
PeerBurst ==
  /\ pc = "reading" /\ ws.connOpen /\ ~eof /\ wire = <<>> /\ nsent = 0
  /\ \E b \in Bursts :
       /\ wire' = Flatten([i \in 1..Len(b) |-> PeerWire[b[i]]])
       /\ inflight' = b
       /\ nsent' = Len(b)
  /\ UNCHANGED <<eof, ws, pc, loc, ret, rx, call, codec, bw>>

\* the application calls a send operation on the closed connection
SendOnClosed ==
  /\ pc \in {"idle", "returned"} /\ ~ws.connOpen
  /\ call.count <= MaxSends
  /\ \E fail \in BOOLEAN :
       \/ Sent("WriteTextMessage", [message |-> Hi],
               WriteTextMessage(Fresh, Hi, fail), FALSE)
       \/ Sent("WriteBinaryMessage", [data |-> Hi],
               WriteBinaryMessage(Fresh, Hi, fail), FALSE)
       \/ LET r == WriteFragmentedMessage(Fresh, Hi, 1, OpText, [i \in 1..5 |-> Key1], fail)
          IN  Sent("WriteFragmentedMessage",
                   [data |-> Hi, maxFrameSize |-> 1, opcode |-> OpText], r, r.panic)
       \/ Sent("WriteCloseMessage", [code |-> NormalClosure, reason |-> Bye],
               WriteCloseMessage(Fresh, NormalClosure, Bye, fail), FALSE)
       \/ Sent("WritePingMessage", [applicationData |-> PingData],
               WritePingMessage(Fresh, PingData, fail), FALSE)
       \/ LET p == NewClientFrame(TRUE, OpPing, PingData, Key1)
          IN  Sent("WritePongMessage", [pingFrame |-> p],
                   WritePongMessage(Fresh, p, fail), FALSE)
       \/ Sent("Close", <<>>, Close(Fresh, fail), FALSE)
       \/ Sent("CloseWithCode", [statusCode |-> 1001, reason |-> Bye],
               CloseWithCode(Fresh, 1001, Bye, fail), FALSE)

SessionNext ==
  \/ PeerBurst
  \/ PeerHangup
  \/ ReadMessageCall
  \/ ReadMessageStep
  \/ CloseCall
  \/ CloseWithCodeCall
  \/ SendOnClosed

SessionSpec ==
  Init /\ [][SessionNext]_vars

\* C24: once the connection is closed, by ReadMessage, Close or
\* CloseWithCode, every ReadMessage called later returns an error and no
\* message, also when frames of the peer had arrived before the closure, and
\* every send operation called later returns an error and writes nothing.
C24_ClosedIsFinal ==
  [][~ws.connOpen
     => /\ (pc = "reading" /\ pc' = "returned")
           => (ret'.err # Nil /\ ret'.messageType = 0 /\ ret'.data = <<>>)
        /\ call'.count # call.count
           => (call'.err # Nil /\ ws'.out = <<>>)]_vars

\* a Ping frame
IsPing(pf) ==
  pf.opcode = OpPing

\* the Pings among the frames the current ReadMessage has decoded
RxPings ==
  SelectSeq(rx, IsPing)

\* C25: when the frames a ReadMessage call has decoded are valid data frames
\* that make up one message, with valid Pings and Pongs at any places before
\* and between them, and no write was refused, the call has returned the
\* first data frame's opcode and the data payloads concatenated, with a nil
\* error and the connection open (what it returns for the data frames alone),
\* and has written one Pong for each Ping, in order, with the Ping's payload,
\* and nothing else.
C25_ControlInterleaved ==
  (/\ rx # <<>>
   /\ \A i \in 1..Len(rx) :
        PeerValidData(rx[i]) \/ PeerValidPing(rx[i]) \/ PeerValidPong(rx[i])
   /\ RxData # <<>>
   /\ DataMessage(RxData)
   /\ (RxData[1].opcode = OpText => Utf8Valid(ConcatPlain(RxData)))
   /\ ~ws.refused)
  => /\ pc = "returned"
     /\ ret = Ret(RxData[1].opcode, ConcatPlain(RxData), Nil)
     /\ ws.connOpen
     /\ Len(ws.out) = Len(RxPings)
     /\ \A i \in 1..Len(RxPings) :
          LET pong == OutFrame(i)
          IN  /\ pong.OpCode = OpPong /\ pong.Fin /\ ~pong.Masked
              /\ pong.PayloadData = RxPings[i].plain

\* C25 witness: Text fin=0 "AB", Ping "ping-data", Continuation fin=1 "CD"
\* have been returned as (Text, "ABCD") and the Ping answered
C25_Witness ==
  /\ pc = "returned"
  /\ rx = <<PeerFrame(FALSE, NoRsv, OpText, TRUE, Key1, AB),
            PeerFrame(TRUE, NoRsv, OpPing, TRUE, Key1, PingData),
            PeerFrame(TRUE, NoRsv, OpContinuation, TRUE, Key1, CD)>>
  /\ ret = Ret(OpText, <<65, 66, 67, 68>>, Nil)
  /\ Len(ws.out) = 1
  /\ OutFrame(1).OpCode = OpPong /\ OutFrame(1).PayloadData = PingData

\* C25 witness: the same message with a Pong between its frames
C25_WitnessPong ==
  /\ pc = "returned"
  /\ rx = <<PeerFrame(FALSE, NoRsv, OpText, TRUE, Key1, AB),
            PeerFrame(TRUE, NoRsv, OpPong, TRUE, Key1, PingData),
            PeerFrame(TRUE, NoRsv, OpContinuation, TRUE, Key1, CD)>>
  /\ ret = Ret(OpText, <<65, 66, 67, 68>>, Nil)
  /\ ws.out = <<>>

\* ------------------------------------------------------------------------
\* The validator on its own: the application hands decoded frames to
\* ValidateClientFrame
\* ------------------------------------------------------------------------

\* payloads of the frames handed to the validator: none, one byte, short,
\* not UTF-8, 125 and 126 bytes, close codes around the ranges with no
\* reason, a UTF-8 reason and a reason that is not UTF-8, and a Close payload
\* of 127 bytes whose reason is not UTF-8
ValidatePayloads ==
  {<<>>, <<3>>, Hi, NotUtf8, Filler(payloadLen125OrLess), Long126}
  \cup {BigEndian(c, 2) \o r :
          c \in {999, NormalClosure, NoStatusCode1005, 1011, 1012, 1015, 2999, 3000, 5000},
          r \in {<<>>, Bye, NotUtf8}}
  \cup {BigEndian(NormalClosure, 2) \o NotUtf8 \o Filler(payloadLen125OrLess - 1)}

\* the frames handed to the validator, as DecodeFrame returns them
ValidateFrames ==
  { [Fin |-> fin, Rsv1 |-> rsv[1], Rsv2 |-> rsv[2], Rsv3 |-> rsv[3],
     OpCode |-> opcode, Masked |-> masked, PayloadLength |-> Len(payload),
     MaskingKey |-> IF masked THEN Key1 ELSE ZeroKey, PayloadData |-> payload] :
      fin \in BOOLEAN,
      rsv \in {NoRsv} \cup RsvBits,
      opcode \in {OpContinuation, OpText, OpBinary, 3, 7, OpClose, OpPing, OpPong, 11, 15},
      masked \in BOOLEAN,
      payload \in ValidatePayloads }

\* the application calls ValidateClientFrame on a new session
ValidateClientFrameCall ==
  /\ pc = "idle" /\ nsent = 0 /\ call.op = "none"
  /\ \E fr \in ValidateFrames :
     \E r \in {ValidateClientFrame(Fresh, fr)} :
       /\ ws' = r.w
       /\ call' = [op |-> "ValidateClientFrame", args |-> [fr |-> fr],
                   err |-> r.err, panic |-> FALSE, pre |-> Fresh, count |-> 1]
  /\ UNCHANGED <<wire, inflight, nsent, eof, pc, loc, ret, rx, codec, bw>>

ValidateNext ==
  ValidateClientFrameCall

ValidateSpec ==
  Init /\ [][ValidateNext]_vars

\* ValidateClientFrame has just returned
Validated ==
  call.op = "ValidateClientFrame"

\* C26: ValidateClientFrame accepts a frame whose opcode is not Close exactly
\* when the frame is masked, its opcode is 0x0, 0x1, 0x2, 0x9 or 0xA, its
\* three RSV bits are clear and, the opcode being 0x8 or above, it is final
\* and carries at most 125 bytes; when it rejects such a frame it returns an
\* error and ws.status is ProtocolError.
C26_NonCloseAccepted ==
  (Validated /\ call.args.fr.OpCode # OpClose)
  => LET fr == call.args.fr
     IN  /\ call.err = Nil
            <=> (/\ fr.Masked
                 /\ fr.OpCode \in {0, 1, 2, 9, 10}
                 /\ ~fr.Rsv1 /\ ~fr.Rsv2 /\ ~fr.Rsv3
                 /\ fr.OpCode >= 8 => (fr.Fin /\ fr.PayloadLength <= 125))
         /\ call.err # Nil => ws.status = ProtocolError

\* C26 witness: a masked, final Ping of 125 bytes has been accepted
C26_Witness ==
  /\ Validated
  /\ call.args.fr.OpCode = OpPing /\ call.args.fr.Masked /\ call.args.fr.Fin
  /\ call.args.fr.PayloadLength = 125
  /\ ~call.args.fr.Rsv1 /\ ~call.args.fr.Rsv2 /\ ~call.args.fr.Rsv3
  /\ call.err = Nil

\* C26 witness: a masked Text frame with RSV2 set has been rejected with
\* ProtocolError
C26_WitnessRejected ==
  /\ Validated
  /\ call.args.fr.OpCode = OpText /\ call.args.fr.Masked
  /\ call.args.fr.Rsv2
  /\ call.err = MsgRsv
  /\ ws.status = ProtocolError

\* the frame breaks one of the rules on the shape of a Close frame: no mask,
\* not final, more than 125 bytes, an RSV bit
CloseShapeViolation(fr) ==
  ~fr.Masked \/ ~fr.Fin \/ fr.PayloadLength > 125 \/ fr.Rsv1 \/ fr.Rsv2 \/ fr.Rsv3

\* the frame carries a status code followed by bytes that are not UTF-8
BadCloseReason(fr) ==
  fr.PayloadLength > 2 /\ ~Utf8Valid(Drop(fr.PayloadData, 2))

\* C27: ValidateClientFrame applies its tests in the order mask, control
\* shape, opcode, RSV, close code, close reason, and reports the first that
\* fails.  ws.status is GotInconsistentData only after a Close frame that is
\* masked, final, of at most 125 bytes, with RSV clear, with a status code
\* that is not refused and with reason bytes that are not UTF-8, and such a
\* frame with an accepted code is reported so; a Close frame with exactly one
\* payload byte, and one whose reason is not UTF-8 but which breaks a shape
\* rule or carries a refused code, is reported as ProtocolError.
C27_ValidationOrder ==
  Validated
  => LET fr == call.args.fr
         code == fr.PayloadData[1] * 256 + fr.PayloadData[2]
         Reported(st) == call.err # Nil /\ ws.status = st
     IN  /\ ~fr.Masked => call.err = MsgUnmasked
         /\ (fr.Masked /\ fr.OpCode >= 8 /\ (fr.PayloadLength > 125 \/ ~fr.Fin))
            => call.err = MsgControlShape
         /\ (fr.Masked /\ fr.OpCode \in {3, 7} /\ (fr.Rsv1 \/ fr.Rsv2 \/ fr.Rsv3))
            => (call.err # Nil /\ call.err # MsgRsv)
         /\ Reported(GotInconsistentData)
            => /\ fr.OpCode = OpClose
               /\ ~CloseShapeViolation(fr)
               /\ BadCloseReason(fr)
               /\ ~AgreedBadCloseCode(code)
         /\ (/\ fr.OpCode = OpClose /\ ~CloseShapeViolation(fr)
             /\ BadCloseReason(fr) /\ AgreedCloseCode(code))
            => Reported(GotInconsistentData)
         /\ (fr.OpCode = OpClose /\ fr.PayloadLength = 1)
            => Reported(ProtocolError)
         /\ (/\ fr.OpCode = OpClose /\ BadCloseReason(fr)
             /\ (CloseShapeViolation(fr) \/ AgreedBadCloseCode(code)))
            => Reported(ProtocolError)

\* C27 witness: a well-shaped Close frame with the refused code 999 and a
\* reason that is not UTF-8 has been reported as ProtocolError for its code
C27_Witness ==
  /\ Validated
  /\ call.args.fr.OpCode = OpClose /\ ~CloseShapeViolation(call.args.fr)
  /\ call.args.fr.PayloadData = <<3, 231, 255>>
  /\ call.err = MsgCloseCodePrefix \o <<57, 57, 57>>
  /\ ws.status = ProtocolError

\* C27 witness: a well-shaped Close frame with code 1000 and a reason that is
\* not UTF-8 has been reported as GotInconsistentData
C27_WitnessUtf8 ==
  /\ Validated
  /\ call.args.fr.OpCode = OpClose /\ ~CloseShapeViolation(call.args.fr)
  /\ call.args.fr.PayloadData = <<3, 232, 255>>
  /\ call.err = MsgCloseUtf8
  /\ ws.status = GotInconsistentData

\* C28: ValidateClientFrame leaves the WebSocket as it was, for a frame it
\* accepts and for a frame it rejects: nothing written, the connection as
\* before, ws.status unchanged.
C28_ValidationPure ==
  Validated => ws = call.pre

\* the valid Pings among the frames the current ReadMessage has decoded
RxAnswered ==
  SelectSeq(rx, PeerValidPing)

\* C29: at every point of a ReadMessage call during which no write has
\* failed, the frames written are the Pongs of the valid Pings decoded so
\* far, one for each, in the order of the Pings and with their payloads,
\* followed by at most one Close frame: each Pong is written before the next
\* frame is decoded, and the Close a later frame causes comes after the
\* Pongs.
C29_PongsInOrder ==
  (pc \in {"reading", "returned"} /\ ~ws.werr)
  => LET n == Len(RxAnswered)
     IN  /\ Len(ws.out) \in {n, n + 1}
         /\ \A i \in 1..n :
              LET pong == OutFrame(i)
              IN  /\ pong.OpCode = OpPong /\ pong.Fin /\ ~pong.Masked
                  /\ pong.PayloadData = RxAnswered[i].plain
         /\ Len(ws.out) = n + 1 => (pc = "returned" /\ IsCloseOut(LastOut))

\* C29 witness: a Ping and a frame without a mask arrived together; the Pong
\* was written first and the Close(1002) for the second frame after it
C29_Witness ==
  /\ pc = "returned"
  /\ rx = <<PeerFrame(TRUE, NoRsv, OpPing, TRUE, Key1, PingData),
            PeerFrame(TRUE, NoRsv, OpText, FALSE, ZeroKey, <<>>)>>
  /\ Len(ws.out) = 2
  /\ OutFrame(1).OpCode = OpPong /\ OutFrame(1).PayloadData = PingData
  /\ IsCloseOut(OutFrame(2)) /\ CloseCodeOf(OutFrame(2)) = ProtocolError

\* C29 witness: two Pings arrived together and only the first has been
\* decoded; its Pong is written already
C29_WitnessBetween ==
  /\ pc = "reading"
  /\ rx = <<PeerFrame(TRUE, NoRsv, OpPing, TRUE, Key1, PingData)>>
  /\ inflight = <<PeerFrame(TRUE, NoRsv, OpPing, TRUE, Key1, <<>>)>>
  /\ Len(ws.out) = 1
  /\ OutFrame(1).OpCode = OpPong /\ OutFrame(1).PayloadData = PingData

\* ------------------------------------------------------------------------
\* internal/websock.go: WriteFrames called by two goroutines
\* ------------------------------------------------------------------------

\* the frame lists handed to WriteFrames: WriteFragmentedMessage("hi", 1,
\* OpText), WriteBinaryMessage("A"), WriteTextMessage("hi"), and ReadMessage's
\* WritePongMessage and WriteCloseMessage(ProtocolError, "")
WriterCalls ==
  {FragmentedFrames(Hi, 1, OpText, TRUE, [i \in 1..5 |-> Key1]).frames,
   <<BinaryFrame(<<65>>, TRUE, ZeroKey).frame>>,
   <<TextFrame(Hi, TRUE, ZeroKey).frame>>,
   <<NewServerFrame(TRUE, OpPong, <<>>)>>,
   <<NewCloseFrame(ProtocolError, <<>>, TRUE, ZeroKey).frame>>}

\* frame.MarshalBinary() of every frame of a list
EncodeFrames(frames) ==
  [i \in 1..Len(frames) |-> MarshalBinary(frames[i])]

\* copy(b.buf[at:], p) of bufio.Writer.Write
CopyAt(buf, at, p) ==
  [k \in 1..BufSize |-> IF at < k /\ k <= at + Len(p) THEN p[k - at] ELSE buf[k]]

\* WriteFrames that waits until no other call is running
WriteFramesBegin_Locked(p) ==
  /\ pc = "idle" /\ nsent = 0 /\ call.op = "none"
  /\ bw.g[p].st = "idle"
  /\ \A q \in Writers \ {p} : bw.g[q].st \in {"idle", "done"}
  /\ \E frames \in WriterCalls :
       bw' = [bw EXCEPT !.g[p] = [st |-> "write", frames |-> frames, i |-> 1, at |-> 0],
                        !.order = Append(@, p)]
  /\ UNCHANGED <<wire, inflight, nsent, eof, ws, pc, loc, ret, rx, call, codec>>

\* goroutine p calls WriteFrames(frames); nothing makes it wait for a call
\* that is running
WriteFramesBegin(p) ==
  /\ pc = "idle" /\ nsent = 0 /\ call.op = "none"
  /\ bw.g[p].st = "idle"
  /\ \E frames \in WriterCalls :
       bw' = [bw EXCEPT !.g[p] = [st |-> "write", frames |-> frames, i |-> 1, at |-> 0],
                        !.order = Append(@, p),
                        !.raced = @ \/ \E q \in Writers \ {p} :
                                         bw.g[q].st \notin {"idle", "done"}]
  /\ UNCHANGED <<wire, inflight, nsent, eof, ws, pc, loc, ret, rx, call, codec>>

\* ws.buff.Write(encoded) reads the fill count b.n
BuffWriteEnter(p) ==
  /\ bw.g[p].st = "write"
  /\ bw' = [bw EXCEPT !.g[p].st = "copy", !.g[p].at = bw.n]
  /\ UNCHANGED <<wire, inflight, nsent, eof, ws, pc, loc, ret, rx, call, codec>>

\* ws.buff.Write(encoded) copies the frame to where the fill count was, and
\* adds its length to the fill count: to the one it read or to the one
\* another goroutine has stored since (the update is not atomic)
BuffWriteCopy(p) ==
  /\ bw.g[p].st = "copy"
  /\ LET me == bw.g[p]
         encoded == MarshalBinary(me.frames[me.i])
     IN  \E n \in {me.at + Len(encoded), bw.n + Len(encoded)} :
           bw' = [bw EXCEPT !.buf = CopyAt(@, me.at, encoded),
                            !.n = n,
                            !.g[p].i = me.i + 1,
                            !.g[p].st = IF me.i = Len(me.frames)
                                        THEN "flush" ELSE "write"]
  /\ UNCHANGED <<wire, inflight, nsent, eof, ws, pc, loc, ret, rx, call, codec>>

\* ws.buff.Flush() writes the buffer's b.n bytes to ws.Conn
BuffFlushWrite(p) ==
  /\ bw.g[p].st = "flush"
  /\ bw' = [bw EXCEPT !.sent = @ \o [k \in 1..bw.n |-> bw.buf[k]],
                      !.g[p].st = "reset"]
  /\ UNCHANGED <<wire, inflight, nsent, eof, ws, pc, loc, ret, rx, call, codec>>

\* ws.buff.Flush() empties the buffer, and WriteFrames returns
BuffFlushReset(p) ==
  /\ bw.g[p].st = "reset"
  /\ bw' = [bw EXCEPT !.n = 0, !.g[p].st = "done"]
  /\ UNCHANGED <<wire, inflight, nsent, eof, ws, pc, loc, ret, rx, call, codec>>

WritersNext ==
  \E p \in Writers :
    \/ WriteFramesBegin(p)
    \/ BuffWriteEnter(p)
    \/ BuffWriteCopy(p)
    \/ BuffFlushWrite(p)
    \/ BuffFlushReset(p)

WritersSpec ==
  Init /\ [][WritersNext]_vars

\* the bytes of the calls that have flushed, call after call
FlushedCalls ==
  LET flushed == SelectSeq(bw.order, LAMBDA p : bw.g[p].st \in {"reset", "done"})
  IN  Flatten([k \in 1..Len(flushed) |-> Flatten(EncodeFrames(bw.g[flushed[k]].frames))])

\* the frames of WriteFragmentedMessage("hi", 1, OpText), encoded
HiFragments ==
  EncodeFrames(FragmentedFrames(Hi, 1, OpText, TRUE, [i \in 1..5 |-> Key1]).frames)

\* C30: no lock: a goroutine can call WriteFrames while another call is
\* running.  As long as no call has begun during another, the transport has
\* received exactly the frames of the finished calls, each call's frames
\* together and in order, and the buffer holds the frames the running call
\* has written so far; when calls overlap a frame of one can reach the
\* transport between the fragments of the other (C30_Witness).
C30_NoWriteLock ==
  /\ \A p \in Writers : \A q \in Writers \ {p} :
       (bw.g[p].st \in {"write", "copy", "flush", "reset"} /\ bw.g[q].st = "idle")
         => ENABLED WriteFramesBegin(q)
  /\ ~bw.raced
       => /\ bw.sent = FlushedCalls
          /\ \A p \in Writers :
               bw.g[p].st \in {"write", "copy", "flush"}
                 => [k \in 1..bw.n |-> bw.buf[k]]
                      = Flatten(EncodeFrames(Take(bw.g[p].frames, bw.g[p].i - 1)))

\* two calls overlapped and the transport has the first fragment of "hi",
\* then the other goroutine's Binary frame "A", then the last fragment
C30_Witness ==
  /\ bw.raced
  /\ \A p \in Writers : bw.g[p].st = "done"
  /\ bw.sent = HiFragments[1] \o <<130, 1, 65>> \o HiFragments[2]

\* one goroutine at a time: the fragments of "hi" and then the Binary frame
C30_WitnessSingle ==
  /\ ~bw.raced
  /\ \A p \in Writers : bw.g[p].st = "done"
  /\ bw.sent = HiFragments[1] \o HiFragments[2] \o <<130, 1, 65>>

\* ------------------------------------------------------------------------
\* internal/frame.go: DecodeFrame on a reader that delivers any bytes and
\* then fails
\* ------------------------------------------------------------------------

\* every s[:n] of a stream
Prefixes(s) ==
  {Take(s, n) : n \in 0..Len(s)}

\* the streams DecodeFrame reads: the encodings of frames of every length
\* form, masked and not, cut off after any number of bytes or followed by the
\* first byte of another frame; 64-bit length fields of 2, of 2^63 (top bit
\* set) and of 2^63-1, with and without the masking key
DecodeStreams ==
  UNION {Prefixes(MarshalBinary(f) \o <<129>>) :
           f \in {NewServerFrame(TRUE, OpPing, <<>>),
                  NewServerFrame(TRUE, OpText, Hi),
                  NewClientFrame(FALSE, OpText, Hi, Key1),
                  NewClientFrame(TRUE, OpBinary, <<>>, Key2),
                  NewServerFrame(TRUE, OpBinary, Long126),
                  NewClientFrame(TRUE, OpBinary, Long126, Key1)}}
  \cup Prefixes(<<130, 127, 0, 0, 0, 0, 0, 0, 0, 2, 65, 66, 129>>)
  \cup Prefixes(<<130, 255, 0, 0, 0, 0, 0, 0, 0, 2, 1, 2, 3, 4, 64, 64, 129>>)
  \cup Prefixes(<<130, 127, 128, 0, 0, 0, 0, 0, 0, 0, 65>>)
  \cup Prefixes(<<130, 127, 127, 255, 255, 255, 255, 255, 255, 255>>)
  \cup Prefixes(<<130, 255, 127, 255, 255, 255, 255, 255, 255, 255, 1, 2, 3, 4>>)
  \cup Prefixes(<<130, 127, 0, 1, 0, 0, 0, 0, 0, 1>>)

\* DecodeFrame(r) on a reader r that delivers the bytes of one stream and
\* then fails
DecodeFrameCall ==
  /\ pc = "idle" /\ nsent = 0 /\ call.op = "none" /\ codec = NoCodec
  /\ \E s \in DecodeStreams :
       codec' = [NoCodec EXCEPT !.bytes = s, !.got = DecodeFrame(s)]
  /\ call' = [NoCall EXCEPT !.op = "DecodeFrame", !.count = 1]
  /\ UNCHANGED <<wire, inflight, nsent, eof, ws, pc, loc, ret, rx, bw>>

DecodeNext ==
  DecodeFrameCall

DecodeSpec ==
  Init /\ [][DecodeNext]_vars

\* DecodeFrame has run
Decoded ==
  call.op = "DecodeFrame"

\* the frame is whole: its payload holds PayloadLength bytes, and they are
\* the stream's bytes behind the header, unmasked with the masking key
WholeFrame(g, s) ==
  LET f == g.frame
      head == Len(s) - Len(g.rest) - f.PayloadLength
  IN  /\ Len(f.PayloadData) = f.PayloadLength
      /\ head >= minimalHeaderSize
      /\ \A k \in 1..f.PayloadLength :
           f.PayloadData[k] = IF f.Masked
                              THEN Xor(s[head + k], f.MaskingKey[((k - 1) % 4) + 1])
                              ELSE s[head + k]
      /\ f.Masked => f.MaskingKey = SubSeq(s, head - 3, head)
      /\ f.Masked = (s[2] >= 128)

\* C31: on every stream DecodeFrame returns an error and no frame, or no
\* error and a whole frame.
C31_AllOrNothing ==
  Decoded
    => /\ ~codec.got.panic
       /\ \/ codec.got.err # Nil /\ codec.got.frame = NoFrame
          \/ codec.got.err = Nil /\ WholeFrame(codec.got, codec.bytes)

\* the i-th frame the current ReadMessage has decoded is a violation: a frame
\* that breaks a frame-shape rule, a Close whose reason is not UTF-8, a
\* Continuation with no message in progress, a Text or Binary frame while a
\* message is in progress
RxViolationAt(i) ==
  LET pf == rx[i]
      pending == SelectSeq(Take(rx, i - 1), NotControl)
  IN  \/ ~pf.masked
      \/ pf.opcode >= 8 /\ (Len(pf.plain) > 125 \/ ~pf.fin)
      \/ pf.opcode \notin {OpContinuation, OpText, OpBinary, OpClose, OpPing, OpPong}
      \/ pf.rsv # NoRsv
      \/ pf.opcode = OpClose /\ Len(pf.plain) = 1
      \/ pf.opcode = OpClose /\ Len(pf.plain) >= 2 /\ AgreedBadCloseCode(PeerCloseCode(pf))
      \/ /\ PeerCloseShapeOk(pf) /\ Len(pf.plain) > 2
         /\ AgreedCloseCode(PeerCloseCode(pf)) /\ ~Utf8Valid(Drop(pf.plain, 2))
      \/ PeerValidData(pf) /\ pf.opcode = OpContinuation /\ pending = <<>>
      \/ PeerValidData(pf) /\ pf.opcode \in {OpText, OpBinary} /\ pending # <<>>

\* C32: a violation among the frames a ReadMessage call has decoded is the
\* last frame the call decoded: the call has returned an error and no
\* message, the frames that arrived behind the violation are still unread on
\* the transport, and the Pongs written are those of the valid Pings before
\* the violation.
C32_ViolationIsFatal ==
  \A i \in 1..Len(rx) :
    RxViolationAt(i)
    => /\ i = Len(rx)
       /\ pc = "returned"
       /\ ret.err # Nil /\ ret.messageType = 0 /\ ret.data = <<>>
       /\ wire = Flatten([k \in 1..Len(inflight) |-> PeerWire[inflight[k]]])
       /\ OutCount(OpPong) <= RxValidPings(i - 1)
       /\ ~ws.werr => OutCount(OpPong) = RxValidPings(i - 1)

\* C32 witness: an unmasked Text frame arrived with a Ping behind it; the
\* call has returned, the Ping is unread and no Pong is written
C32_Witness ==
  /\ pc = "returned"
  /\ rx = <<PeerFrame(TRUE, NoRsv, OpText, FALSE, ZeroKey, <<>>)>>
  /\ inflight = <<PeerFrame(TRUE, NoRsv, OpPing, TRUE, Key1, PingData)>>
  /\ wire = PeerWire[inflight[1]]
  /\ ~ws.werr /\ OutCount(OpPong) = 0 /\ OutCount(OpClose) = 1

\* a Continuation with no message in progress arrived with a Text frame
\* behind it; the call has returned and the Text frame is unread
C32_WitnessSequence ==
  /\ pc = "returned"
  /\ rx = <<PeerFrame(TRUE, NoRsv, OpContinuation, TRUE, Key1, CD)>>
  /\ inflight = <<PeerFrame(TRUE, NoRsv, OpText, TRUE, ZeroKey, Hi)>>
  /\ ret.err # Nil

\* the current ReadMessage call ended on a violation or a transport failure:
\* its last decoded frame is a violation or completes a Text message that is
\* not UTF-8, the read side failed, or the transport refused a write
RxEndedOnFailure ==
  \/ rx # <<>> /\ (RxViolationAt(Len(rx)) \/ RxTextNotUtf8)
  \/ eof
  \/ ws.refused

\* C33: a ReadMessage call that ended on a violation or a transport failure
\* has returned an error, opcode 0 and no data, and the connection is closed;
\* a call that returned a nil error has returned a whole Text or Binary
\* message with the connection open, or (OpClose, nil) with the connection
\* closed.
C33_ReturnContract ==
  pc = "returned"
    => /\ RxEndedOnFailure
            => (ret.err # Nil /\ ret.messageType = 0 /\ ret.data = <<>> /\ ~ws.connOpen)
       /\ ret.err # Nil
            => (ret.messageType = 0 /\ ret.data = <<>> /\ ~ws.connOpen)
       /\ ret.err = Nil
            => \/ /\ ret.messageType \in {OpText, OpBinary}
                  /\ DataMessage(RxData)
                  /\ ret.messageType = RxData[1].opcode
                  /\ ret.data = ConcatPlain(RxData)
                  /\ ws.connOpen
               \/ ret = Ret(OpClose, <<>>, Nil) /\ ~ws.connOpen

\* the last ReadMessage call returned a Text or Binary message and the
\* current call is in its loop (ret keeps the last call's result until the
\* current one returns)
AfterMessage ==
  pc = "reading" /\ ret.err = Nil /\ ret.messageType \in {OpText, OpBinary}

\* C34: when the call that follows a returned message returns, then, if its
\* first data frame was a valid Continuation, it has returned an error with
\* ws.status = ProtocolError, closed the connection and, the transport not
\* having refused a write, written Close(1002) last; and if it returns a
\* message, the message has the opcode of this call's first data frame, a
\* Text or Binary frame, and its payload is the payloads of this call's data
\* frames and nothing else.
C34_StateReset ==
  [][(AfterMessage /\ pc' = "returned")
     => LET data == SelectSeq(rx', NotControl)
            o == ws'.out
        IN  /\ (data # <<>> /\ PeerValidData(data[1]) /\ data[1].opcode = OpContinuation)
                 => /\ ret'.err # Nil /\ ret'.messageType = 0 /\ ret'.data = <<>>
                    /\ ws'.status = ProtocolError
                    /\ ~ws'.connOpen
                    /\ ~ws'.refused
                         => /\ Len(o) >= 1
                            /\ IsCloseOut(DecodeFrame(o[Len(o)]).frame)
                            /\ CloseCodeOf(DecodeFrame(o[Len(o)]).frame) = ProtocolError
            /\ (ret'.err = Nil /\ ret'.messageType \in {OpText, OpBinary})
                 => /\ data # <<>>
                    /\ data[1].opcode = ret'.messageType
                    /\ ret'.data = ConcatPlain(data)]_vars

\* C34 witness: a one-frame message was returned, and the call after it has
\* rejected the Continuation "CD" that arrived next
C34_Witness ==
  /\ pc = "returned"
  /\ nsent = 2
  /\ rx = <<PeerFrame(TRUE, NoRsv, OpContinuation, TRUE, Key1, CD)>>
  /\ ret.err # Nil
  /\ ws.status = ProtocolError /\ ~ws.connOpen
  /\ ~ws.refused /\ ClosedWith(ProtocolError)

\* two frames of earlier messages were returned, and the call after them
\* has returned the Text frame "hi" that arrived next as (Text, "hi")
C34_WitnessFresh ==
  /\ pc = "returned"
  /\ nsent = 3
  /\ rx = <<PeerFrame(TRUE, NoRsv, OpText, TRUE, ZeroKey, Hi)>>
  /\ ret = Ret(OpText, Hi, Nil)
  /\ ws.connOpen

\* ------------------------------------------------------------------------
\* internal/websock.go: ReadTextMessage and ReadBinaryMessage
\* ------------------------------------------------------------------------

\* "received a non-text message"
ErrNonText ==
  <<114, 101, 99, 101, 105, 118, 101, 100, 32, 97, 32, 110, 111, 110, 45, 116, 101, 120, 116, 32, 109, 101, 115, 115, 97, 103, 101>>

\* "received a non-binary message"
ErrNonBinary ==
  <<114, 101, 99, 101, 105, 118, 101, 100, 32, 97, 32, 110, 111, 110, 45, 98, 105, 110, 97, 114, 121, 32, 109, 101, 115, 115, 97, 103, 101>>

\* WebSocket.ReadTextMessage on what ReadMessage returned
ReadTextMessage(r) ==
  IF r.err # Nil THEN [value |-> <<>>, err |-> r.err]
  ELSE IF r.messageType # OpText THEN [value |-> <<>>, err |-> ErrNonText]
  ELSE [value |-> r.data, err |-> Nil]

\* ReadBinaryMessage handing on whatever ReadMessage returned
ReadBinaryMessage_AnyType(r) ==
  IF r.err # Nil THEN [value |-> <<>>, err |-> r.err]
  ELSE [value |-> r.data, err |-> Nil]

\* WebSocket.ReadBinaryMessage on what ReadMessage returned
ReadBinaryMessage(r) ==
  IF r.err # Nil THEN [value |-> <<>>, err |-> r.err]
  ELSE IF r.messageType # OpBinary THEN [value |-> <<>>, err |-> ErrNonBinary]
  ELSE [value |-> r.data, err |-> Nil]

\* what the reading operation the application called last returns, once its
\* ReadMessage has returned
ReadResult ==
  IF call.op = "ReadTextMessage" THEN ReadTextMessage(ret)
  ELSE IF call.op = "ReadBinaryMessage" THEN ReadBinaryMessage(ret)
  ELSE [value |-> ret.data, err |-> ret.err]

\* the operation has returned a message of the other data type
WrongType ==
  /\ pc = "returned" /\ ret.err = Nil
  /\ \/ call.op = "ReadTextMessage" /\ ret.messageType = OpBinary
     \/ call.op = "ReadBinaryMessage" /\ ret.messageType = OpText

\* the frames the peer sends to a session read through the typed operations
TypedFrames ==
  {PeerFrame(TRUE, NoRsv, OpText, TRUE, ZeroKey, Hi),
   PeerFrame(TRUE, NoRsv, OpBinary, TRUE, Key1, AB),
   PeerFrame(FALSE, NoRsv, OpBinary, TRUE, Key1, AB),
   PeerFrame(FALSE, NoRsv, OpText, TRUE, Key1, AB),
   PeerFrame(TRUE, NoRsv, OpContinuation, TRUE, Key1, CD),
   PeerFrame(TRUE, NoRsv, OpPing, TRUE, Key1, PingData),
   PeerFrame(TRUE, NoRsv, OpClose, TRUE, Key1, BigEndian(NormalClosure, 2)),
   PeerFrame(TRUE, NoRsv, OpText, FALSE, ZeroKey, <<>>)}

\* the peer sends one of these frames to the session waiting in ReadMessage
TypedPeerSend ==
  /\ nsent < MaxFrames
  /\ pc = "reading" /\ ws.connOpen /\ ~eof /\ wire = <<>>
  /\ \E pf \in TypedFrames :
       /\ wire' = PeerWire[pf]
       /\ inflight' = <<pf>>
  /\ nsent' = nsent + 1
  /\ UNCHANGED <<eof, ws, pc, loc, ret, rx, call, codec, bw>>

\* the application calls a reading operation, which calls ReadMessage;
\* call.args.afterWrongType: the operation called before returned a message
\* of the other data type
ReadCall(op) ==
  /\ pc \in {"idle", "returned"}
  /\ pc' = "reading"
  /\ loc' = InitLoc
  /\ rx' = <<>>
  /\ ws' = [ws EXCEPT !.out = <<>>]
  /\ call' = [NoCall EXCEPT !.op = op, !.args = [afterWrongType |-> WrongType],
                            !.pre = ws, !.count = 1]
  /\ UNCHANGED <<wire, inflight, nsent, eof, ret, codec, bw>>

ReadTextMessageCall ==
  ReadCall("ReadTextMessage")

ReadBinaryMessageCall ==
  ReadCall("ReadBinaryMessage")

ReadMessageDirectCall ==
  ReadCall("ReadMessage")

TypedNext ==
  \/ TypedPeerSend
  \/ PeerHangup
  \/ ReadTextMessageCall
  \/ ReadBinaryMessageCall
  \/ ReadMessageDirectCall
  \/ ReadMessageStep

TypedSpec ==
  Init /\ [][TypedNext]_vars

\* C35: when ReadTextMessage has received a Binary message, or
\* ReadBinaryMessage a Text message, it returns its own error and no data,
\* the connection is open, ws.status is what it was, and the call has
\* written no Close frame and met no write error; and when the reading
\* operation called after it returns, it returns what its own frames make
\* up: the message of a whole Text or Binary message, and with a nil error
\* either such a message or the peer's Close.
C35_WrongTypeIsLocal ==
  [][/\ WrongType'
          => /\ ReadResult'.value = <<>>
             /\ ReadResult'.err = (IF call'.op = "ReadTextMessage"
                                   THEN ErrNonText ELSE ErrNonBinary)
             /\ ws'.connOpen /\ ~ws'.werr
             /\ ws'.status = call'.pre.status
             /\ \A j \in 1..Len(ws'.out) : DecodeFrame(ws'.out[j]).frame.OpCode = OpPong
     /\ (pc = "reading" /\ call.args.afterWrongType /\ pc' = "returned")
          => LET data == SelectSeq(rx', NotControl)
             IN  /\ (data # <<>> /\ DataMessage(data)
                       /\ (data[1].opcode = OpText => Utf8Valid(ConcatPlain(data))))
                      => (ret' = Ret(data[1].opcode, ConcatPlain(data), Nil) /\ ws'.connOpen)
                 /\ ret'.err = Nil
                      => \/ /\ data # <<>> /\ DataMessage(data)
                            /\ ret' = Ret(data[1].opcode, ConcatPlain(data), Nil)
                         \/ /\ ret' = Ret(OpClose, <<>>, Nil)
                            /\ PeerCloseShapeOk(rx'[Len(rx')])]_vars

\* C35 witness: ReadTextMessage has received the Binary message "AB"
C35_Witness ==
  /\ WrongType
  /\ call.op = "ReadTextMessage"
  /\ ret = Ret(OpBinary, AB, Nil)
  /\ ReadResult = [value |-> <<>>, err |-> ErrNonText]
  /\ ws.connOpen /\ ws.out = <<>>

\* ReadBinaryMessage returned a Text message; the ReadMessage called after
\* it has returned the Binary message "AB" that arrived next
C35_WitnessNext ==
  /\ pc = "returned"
  /\ call.op = "ReadMessage" /\ call.args.afterWrongType
  /\ nsent = 2
  /\ ret = Ret(OpBinary, AB, Nil)
  /\ ws.connOpen

\* ------------------------------------------------------------------------
\* The caller's slice: NewFrame keeps the slice it is given as PayloadData
\* and MaskPayload changes PayloadData in place
\* ------------------------------------------------------------------------

\* the bytes of the caller's slice after BinaryFrame(data, isServer)
BinaryFrameSlice(data, isServer, key) ==
  BinaryFrame(data, isServer, key).frame.PayloadData

\* the bytes of the caller's slice after FragmentedFrames: every frame's
\* PayloadData is the chunk data[start:end] itself; an empty message is sent
\* in a frame on a slice of its own
FragmentedFramesSlice(data, maxFrameSize, opcode, isServer, keys) ==
  LET r == FragmentedFrames(data, maxFrameSize, opcode, isServer, keys)
  IN  IF r.panic \/ r.err # Nil \/ Len(data) = 0 THEN data
      ELSE Flatten([i \in 1..Len(r.frames) |-> r.frames[i].PayloadData])

\* the application calls WriteBinaryMessage(data); args.after: the bytes of
\* data when the call has returned
WriteBinaryMessageOnSlice ==
  /\ MaySend
  /\ \E data \in SendData, fail \in BOOLEAN :
       Sent("WriteBinaryMessage",
            [data |-> data, after |-> BinaryFrameSlice(data, TRUE, ZeroKey)],
            WriteBinaryMessage(Fresh, data, fail), FALSE)

\* the application calls WriteFragmentedMessage(data, maxFrameSize, opcode);
\* args.keys: what rand.Read drew
WriteFragmentedMessageOnSlice ==
  /\ MaySend
  /\ \E data \in SendData, maxFrameSize \in SendFrameSizes, opcode \in SendOpcodes,
        keys \in KeyStreams, fail \in BOOLEAN :
       \E r \in {WriteFragmentedMessage(Fresh, data, maxFrameSize, opcode, keys, fail)} :
         Sent("WriteFragmentedMessage",
              [data |-> data, maxFrameSize |-> maxFrameSize, opcode |-> opcode,
               keys |-> keys,
               after |-> FragmentedFramesSlice(data, maxFrameSize, opcode, TRUE, keys)],
              r, r.panic)

SliceNext ==
  \/ WriteBinaryMessageOnSlice
  \/ WriteFragmentedMessageOnSlice

SliceSpec ==
  Init /\ [][SliceNext]_vars

\* C36: after WriteBinaryMessage(data) or WriteFragmentedMessage(data, n,
\* opcode) the bytes of the caller's slice are what they were before the
\* call.
C36_CallerDataKept ==
  call.op \in {"WriteBinaryMessage", "WriteFragmentedMessage"}
    => call.args.after = call.args.data

\* the last frame the current ReadMessage has decoded is a valid Close frame
\* (without payload, or with an accepted status code and a reason that is
\* UTF-8) and the data frames before it are the start of a fragmented
\* message
RxCloseInsideMessage ==
  /\ Len(rx) >= 2
  /\ PeerValidCloseWithCode(LastRx) \/ (PeerCloseShapeOk(LastRx) /\ LastRx.plain = <<>>)
  /\ DataPrefix(SelectSeq(Take(rx, Len(rx) - 1), NotControl))

\* C37: a valid Close frame decoded while a fragmented message is in
\* progress ends the call: the connection is closed, no message and no data
\* are returned, and, the transport not having refused a write, the call
\* returns (OpClose, nil, nil) and the last frame written is a Close that
\* carries the peer's status code and reason when the peer sent them.
C37_CloseInsideMessage ==
  RxCloseInsideMessage
    => /\ pc = "returned"
       /\ ~ws.connOpen
       /\ ret.data = <<>>
       /\ ret.messageType \in {0, OpClose}
       /\ ret.err # Nil <=> ws.refused
       /\ ~ws.refused
            => /\ ret = Ret(OpClose, <<>>, Nil)
               /\ Len(ws.out) >= 1
               /\ IsCloseOut(LastOut)
               /\ OutCount(OpClose) = 1
               /\ Len(LastRx.plain) >= 2
                    => /\ CloseCodeOf(LastOut) = PeerCloseCode(LastRx)
                       /\ CloseReasonOf(LastOut) = Drop(LastRx.plain, 2)

\* C37 witness: Binary fin=0 "AB", then Close(1000, "bye"): the call has
\* returned (OpClose, nil, nil) and echoed the Close
C37_Witness ==
  /\ pc = "returned"
  /\ rx = <<PeerFrame(FALSE, NoRsv, OpBinary, TRUE, Key1, AB),
            PeerFrame(TRUE, NoRsv, OpClose, TRUE, Key1, BigEndian(NormalClosure, 2) \o Bye)>>
  /\ ret = Ret(OpClose, <<>>, Nil)
  /\ ~ws.connOpen
  /\ ClosedWith(NormalClosure) /\ CloseReasonOf(LastOut) = Bye

\* two fragments are pending, "AB" and "CD", when the Close arrives
C37_WitnessTwo ==
  /\ pc = "returned"
  /\ Len(rx) = 3
  /\ rx[1] = PeerFrame(FALSE, NoRsv, OpText, TRUE, Key1, AB)
  /\ rx[2] = PeerFrame(FALSE, NoRsv, OpContinuation, TRUE, Key1, CD)
  /\ PeerValidCloseWithCode(rx[3])
  /\ ret = Ret(OpClose, <<>>, Nil)

\* ------------------------------------------------------------------------
\* ReadMessage on a finite stream: the peer sends frames, whole or cut off,
\* and the stream ends
\* ------------------------------------------------------------------------

\* the frames of the finite streams: Ping and Pong, fragments that are not
\* final, final frames, a Close, a frame without mask
LiveFrames ==
  {PeerFrame(TRUE, NoRsv, OpPing, TRUE, Key1, PingData),
   PeerFrame(TRUE, NoRsv, OpPong, TRUE, Key1, PingData),
   PeerFrame(FALSE, NoRsv, OpText, TRUE, Key1, AB),
   PeerFrame(FALSE, NoRsv, OpContinuation, TRUE, Key1, CD),
   PeerFrame(TRUE, NoRsv, OpContinuation, TRUE, Key1, CD),
   PeerFrame(TRUE, NoRsv, OpText, TRUE, ZeroKey, Hi),
   PeerFrame(TRUE, NoRsv, OpClose, TRUE, Key1, BigEndian(NormalClosure, 2)),
   PeerFrame(TRUE, NoRsv, OpText, FALSE, ZeroKey, <<>>)}

\* a Binary frame header with the 64-bit length 2^63-1 and no payload
OversizedHeader ==
  <<130, 127, 127, 255, 255, 255, 255, 255, 255, 255>>

\* the peer sends a whole frame
LivePeerSend ==
  /\ nsent < MaxFrames
  /\ pc = "reading" /\ ws.connOpen /\ ~eof /\ wire = <<>>
  /\ \E pf \in LiveFrames :
       /\ wire' = PeerWire[pf]
       /\ inflight' = <<pf>>
  /\ nsent' = nsent + 1
  /\ UNCHANGED <<eof, ws, pc, loc, ret, rx, call, codec, bw>>

\* the stream ends inside a frame: the peer sends the first n bytes of a
\* frame, or the oversized header, and nothing more
LivePeerSendCut ==
  /\ nsent < MaxFrames
  /\ pc = "reading" /\ ws.connOpen /\ ~eof /\ wire = <<>>
  /\ \E s \in {OversizedHeader} \cup {PeerWire[pf] : pf \in LiveFrames} :
       \E n \in 1..Len(s) :
         /\ n = Len(s) => s = OversizedHeader
         /\ wire' = Take(s, n)
  /\ eof' = TRUE
  /\ nsent' = nsent + 1
  /\ UNCHANGED <<inflight, ws, pc, loc, ret, rx, call, codec, bw>>

LiveNext ==
  \/ LivePeerSend
  \/ LivePeerSendCut
  \/ PeerHangup
  \/ ReadMessageCall
  \/ ReadMessageStep

\* ReadMessage runs when it can, and the stream ends
LiveSpec ==
  /\ Init /\ [][LiveNext]_vars
  /\ WF_vars(ReadMessageStep)
  /\ WF_vars(PeerHangup)

\* C38: every ReadMessage call on a finite stream that ends returns, and a
\* call that has returned a Text or Binary message has decoded a final frame
\* last, completing a message.
C38_Terminates ==
  /\ (pc = "reading") ~> (pc = "returned")
  /\ []((pc = "returned" /\ ret.err = Nil /\ ret.messageType \in {OpText, OpBinary})
          => (rx # <<>> /\ LastRx.fin /\ DataMessage(RxData)))

\* ------------------------------------------------------------------------
\* the frames one ReadMessage call writes
\* ------------------------------------------------------------------------

\* what a step taken inside ReadMessage may do to the frames written: it
\* writes nothing, or one frame behind those written before, on a connection
\* that was open; the frame is a Pong, or a Close with which the call returns
\* and the connection is closed; the step that closes the connection ends
\* the call
OneWriteStep ==
  /\ \/ ws'.out = ws.out
     \/ /\ ws.connOpen
        /\ Len(ws'.out) = Len(ws.out) + 1
        /\ Take(ws'.out, Len(ws.out)) = ws.out
        /\ LET f == DecodeFrame(ws'.out[Len(ws'.out)]).frame
           IN  \/ f.OpCode = OpPong /\ pc' = "reading" /\ ws'.connOpen
               \/ f.OpCode = OpClose /\ pc' = "returned" /\ ~ws'.connOpen
  /\ (ws.connOpen /\ ~ws'.connOpen) => pc' = "returned"
  /\ ~ws.connOpen => ~ws'.connOpen

\* the frames written hold at most one Close, behind all the others
OneCloseLast ==
  /\ OutCount(OpClose) <= 1
  /\ \A j \in 1..Len(ws.out) :
       /\ OutFrame(j).OpCode \in {OpPong, OpClose}
       /\ OutFrame(j).OpCode = OpClose => j = Len(ws.out)

\* C39: in one ReadMessage call at most one Close frame is written and it is
\* the last frame written in the call: as long as the call is in its loop it
\* has written Pongs only, a step writes at most one frame, the step that
\* writes a Close returns, and what the call has written when it returns is
\* Pongs and at most one Close behind them.  No frame is written once the
\* connection is closed: a write needs the open connection, and the step
\* that closes it ends the call.
C39_OneCloseLast ==
  /\ [](pc = "reading" => \A j \in 1..Len(ws.out) : OutFrame(j).OpCode = OpPong)
  /\ [][pc = "reading" => (OneWriteStep /\ OneCloseLast')]_vars

\* C39 witness: the call answered a Ping, then an unmasked frame; it has
\* written a Pong and then one Close, and the connection is closed
C39_Witness ==
  /\ pc = "returned"
  /\ Len(rx) = 2 /\ PeerValidPing(rx[1]) /\ ~rx[2].masked
  /\ Len(ws.out) = 2
  /\ OutFrame(1).OpCode = OpPong
  /\ OutFrame(2).OpCode = OpClose
  /\ ~ws.connOpen

\* a later call on the closed connection read a Ping that was buffered
\* behind the peer's Close: no Pong is written for it
C39_WitnessAfterClose ==
  /\ pc = "returned"
  /\ ~ws.connOpen
  /\ rx # <<>> /\ PeerValidPing(LastRx)
  /\ ws.out = <<>>
  /\ ret.err # Nil

\* ------------------------------------------------------------------------
\* the two defensive branches of ReadMessage
\* ------------------------------------------------------------------------

\* the bytes s begin with the bytes p
StartsWith(s, p) ==
  Len(s) >= Len(p) /\ Take(s, Len(p)) = p

\* the text of an error or of a Close reason is that of one of the two
\* defensive branches
DefensiveText(s) ==
  \/ StartsWith(s, MsgDataOpcodePrefix)
  \/ StartsWith(s, MsgProtocolErrorPrefix \o MsgDataOpcodePrefix)
  \/ s = MsgNoInitialFrame
  \/ s = MsgProtocolErrorPrefix \o MsgNoInitialFrame

\* C40: the two defensive branches of ReadMessage are not reached.  Of the
\* sixteen opcodes, those the validation lets pass that are neither control
\* opcodes nor Continuation are Text and Binary, and the control opcodes it
\* lets pass are Close, Ping and Pong; no call returns the error of the
\* "invalid data frame opcode" or of the "no initial data frame for
\* continuation" branch, and no Close frame written carries either text; the
\* first opcode recorded is Text or Binary whenever a message is in progress
\* and whenever a message is returned.
C40_DefensiveBranchesDead ==
  /\ \A op \in 0..15 :
       LET f == NewFrame(TRUE, op, <<>>, TRUE, Key1)
       IN  /\ (~BadOpcode(f) /\ ~IsControl(f) /\ op # OpContinuation)
              => op \in {OpText, OpBinary}
           /\ (~BadOpcode(f) /\ IsControl(f)) => op \in {OpClose, OpPing, OpPong}
  /\ ~DefensiveText(ret.err)
  /\ \A j \in 1..Len(ws.out) :
       OutFrame(j).OpCode = OpClose => ~DefensiveText(CloseReasonOf(OutFrame(j)))
  /\ (pc = "reading" /\ loc.inFragmentedMessage) => loc.firstOpCode \in {OpText, OpBinary}
  /\ (pc = "returned" /\ ret.err = Nil /\ ret.messageType # OpClose)
     => (loc.firstOpCode \in {OpText, OpBinary} /\ ret.messageType = loc.firstOpCode)

\* C40 witness: a masked final frame with the reserved opcode 3 has been
\* refused by the validation, with the validation's text in the Close frame
C40_Witness ==
  /\ pc = "returned"
  /\ rx # <<>>
  /\ LastRx = PeerFrame(TRUE, NoRsv, 3, TRUE, Key1, <<>>)
  /\ ClosedWith(ProtocolError)
  /\ CloseReasonOf(LastOut) = MsgOpcodePrefix \o Fmt(3, 16) \o MsgOpcodeSuffix
  /\ ret.err = CloseReasonOf(LastOut)

\* a final Continuation has completed a message whose recorded first opcode
\* is Text
C40_WitnessFinal ==
  /\ pc = "returned"
  /\ Len(rx) >= 2
  /\ LastRx.opcode = OpContinuation /\ LastRx.fin
  /\ ret.err = Nil /\ ret.messageType = OpText
  /\ loc.firstOpCode = OpText

====
